---- MODULE Spec2Model ----
(***************************************************************************)
(* Model of postcard_creator: the credential acquisition of Token          *)
(* (src/postcard_creator/_token.py), the REST facade of PostcardCreator    *)
(* (src/postcard_creator/_creator.py) and the error mapping of the server  *)
(* (src/postcard_creator_server).                                          *)
(*                                                                         *)
(* One fetch_token call is a walk of pc through the requests of the legacy *)
(* and/or the swissid path.  An action is "send one request, receive its   *)
(* response, run the code up to the next request"; the responses of the    *)
(* identity provider are the inputs and are chosen with \E.                *)
(***************************************************************************)
EXTENDS Integers, Sequences, FiniteSets, TLC

\* ------------------------------------------------------------------------
\* Bounds of the model
\* ------------------------------------------------------------------------
MaxCalls == 2
MaxTime == 2
MaxExpiresIn == 2

\* ------------------------------------------------------------------------
\* Values
\* ------------------------------------------------------------------------
\* Python's None and a set value, as a sequence of length 0 or 1
None == <<>>
Some(v) == <<v>>

Methods == {"mixed", "legacy", "swissid"}
\* "other" stands for any string that is not one of the three methods
MethodInputs == Methods \cup {"other"}

AccessTokens == {"abc", "xyz"}
ExpiresIns == 1..MaxExpiresIn

PCE == "PostcardCreatorException"

NoExc == [type |-> "none", msg |-> "", origin |-> ""]
Exc(t, m, o) == [type |-> t, msg |-> m, origin |-> o]

\* what the transport returns for one request: a response, or the exception
\* of the transport once its retries are exhausted
TransportOutcomes == {"response", "ConnectionError"}

\* the <input name=...> of a scraped page: no such tag, tag without value, tag
InputTags == {"absent", "novalue", "value"}

\* the Location header of the SAML replay response
Locations == {"absent", "nocode", "code"}

\* token endpoint responses: status and decoded body
TokenStatuses == {200, 500}
TokenBodies ==
    {[shape |-> s, access_token |-> "", expires_in |-> 0] :
        s \in {"notjson", "no_access_token"}}
    \cup {[shape |-> "access_token_only", access_token |-> t, expires_in |-> 0] :
        t \in AccessTokens}
    \cup {[shape |-> "no_expires_in", access_token |-> t, expires_in |-> 0] :
        t \in AccessTokens}
    \cup {[shape |-> "full", access_token |-> t, expires_in |-> x] :
        t \in AccessTokens, x \in ExpiresIns}
NoBody == [shape |-> "none", access_token |-> "", expires_in |-> 0]

\* "access_token" in resp.json()
HasAccessToken(body) == body.shape \in {"access_token_only", "no_expires_in", "full"}
HasTokenType(body) == body.shape \in {"no_expires_in", "full"}
HasExpiresIn(body) == body.shape = "full"

VARIABLES
    pc,                  \* position of the running fetch_token call
    method,              \* the method argument of the call
    entry,               \* "fetch_token" or "has_valid_credentials"
    cred,                \* the five credential fields of the Token
    credBefore,          \* cred when the call started
    access_token,        \* local access_token of fetch_token
    implementation_type, \* local implementation_type of fetch_token
    success,             \* local success of fetch_token
    exc,                 \* the exception that left fetch_token
    pathExc,             \* path -> the exception the path raised in this call
    page,                \* path -> what the path read off its responses in
                         \* this call: the SAML page, the Location of the
                         \* replay, the redirects, the swissid bodies
    hvc,                 \* outcome of has_valid_credentials
    reqLog,              \* requests sent in this call, in order
    started,             \* paths started in this call, in order
    tokenResp,           \* path -> body returned by the path in this call
    tokenSeen,           \* path -> status and shape of the token endpoint
                         \* response of this call
    now,                 \* datetime.datetime.now()
    nCalls

tokenVars == <<pc, method, entry, cred, credBefore, access_token,
               implementation_type, success, exc, pathExc, page, hvc,
               reqLog, started, tokenResp, tokenSeen, now, nCalls>>

VARIABLES
    apiPc,         \* position of the running PostcardCreator operation
    apiOp,         \* the operation
    apiLog,        \* REST calls of the operation, in order
    apiResult,     \* what the operation returned
    apiExc,        \* the exception the operation raised
    lastResp,      \* response of the latest REST call of the operation
    mock_send,     \* the mock_send argument of send_free_card
    payload,       \* the upload payload send_free_card built
    logged,        \* the payload send_free_card logged
    quotaSeen,     \* the quota model has_free_postcard read
    backendQuota,  \* the quota the backend holds for the account
    nOps

apiVars == <<apiPc, apiOp, apiLog, apiResult, apiExc, lastResp, mock_send,
             payload, logged, quotaSeen, backendQuota, nOps>>

VARIABLES
    tokens,    \* TokenManager._tokens: username -> Token object
    mgrCall,   \* the latest TokenManager.get call and what it did
    nTokens,   \* Token objects created so far
    nGets

mgrVars == <<tokens, mgrCall, nTokens, nGets>>

VARIABLES
    shared,    \* the fields of a Token object that two threads use
    wPc,       \* fetch_token in thread 1: fields assigned so far, 0 = not begun
    wNew,      \* the token body, path and time thread 1 assigns from
    rPc,       \* AuthToken.from_token in thread 2: fields read so far
    snap       \* the fields thread 2 has read

concVars == <<shared, wPc, wNew, rPc, snap>>

VARIABLES
    rState,    \* a request on the session: idle, inflight, returned, raised
    rMethod,   \* its HTTP method
    rAttempts, \* times it was put on the wire
    rLast,     \* what the latest attempt ended with
    rTotal,    \* Retry.total left
    rConnect,  \* Retry.connect left
    rRead,     \* Retry.read left
    nReqs

retryVars == <<rState, rMethod, rAttempts, rLast, rTotal, rConnect, rRead,
               nReqs>>

VARIABLES
    qModel,    \* the "model" dictionary handed to Quota.from_model
    qValue,    \* the Quota it produced
    qExc,      \* the exception it raised
    nQuotas

quotaVars == <<qModel, qValue, qExc, nQuotas>>

VARIABLES
    tPc,         \* find_optimal_size: idle, search, done
    msg,         \* the text, as its number of characters
    size_l,      \* lower end of the font sizes still searched
    size_r,      \* upper end of the font sizes still searched
    last_size,   \* the font size probed last
    last_line_w, \* the line width probed last
    chosen,      \* text -> font size returned for it, 0 = none yet
    nTexts

textVars == <<tPc, msg, size_l, size_r, last_size, last_line_w, chosen,
              nTexts>>

VARIABLES
    iPc,                 \* the images of a card send: idle, opened, rotated,
                         \* resized, cover_done, done
    image,               \* <<width, height>> of the picture being scaled
    export_requested,    \* image_export as passed to send_free_card
    image_export,        \* the local image_export of rotate_and_scale_image
    fallback_color_fill, \* as passed to send_free_card, default False
    resize_path,         \* none, cover, contain
    cover,               \* <<width, height>> of the scaled picture
    files,               \* files written to the sent-images directory
    rotate_requested,    \* image_rotate as passed to send_free_card
    source,              \* <<width, height>> of the picture as opened
    nSends

imageVars == <<iPc, image, export_requested, image_export,
               fallback_color_fill, resize_path, cover, files,
               rotate_requested, source, nSends>>

VARIABLES
    legacy_headers,      \* names of the keys of Token.legacy_headers
    swissid_headers,     \* names of the keys of Token.swissid_headers
    hPath,               \* the path function running on the Token, or "none"
    hStep,               \* position of its next request in the path
    hLog,                \* the requests of the running attempt with the
                         \* names of the headers each was given
    nAttempts

hdrVars == <<legacy_headers, swissid_headers, hPath, hStep, hLog, nAttempts>>

VARIABLES
    slot,                \* id of the Token in _tokens[username], 0 for none
    gPc,                 \* thread -> its position in TokenManager.get
    gToken,              \* thread -> id of the Token bound to its local token
    gReturned,           \* thread -> id of the Token its last get returned
    fetched,             \* ids of the Tokens whose fetch_token has returned
    nObjects,            \* Token objects created so far
    nThreadGets

raceVars == <<slot, gPc, gToken, gReturned, fetched, nObjects, nThreadGets>>

VARIABLES
    sPc,                 \* create_text_image on one text: idle, outer (the
                         \* loop of find_optimal_size), inner (the loop of
                         \* line_width), done
    search               \* the text and the locals of the two loops

searchVars == <<sPc, search>>

\* the variables of the other components
extVars == <<mgrVars, concVars, retryVars, quotaVars, textVars, imageVars,
             hdrVars, raceVars, searchVars>>

othersOfMgr == <<tokenVars, apiVars, concVars, retryVars, quotaVars, textVars,
    imageVars, hdrVars, raceVars, searchVars>>
othersOfConc == <<tokenVars, apiVars, mgrVars, retryVars, quotaVars, textVars,
    imageVars, hdrVars, raceVars, searchVars>>
othersOfRetry == <<tokenVars, apiVars, mgrVars, concVars, quotaVars, textVars,
    imageVars, hdrVars, raceVars, searchVars>>
othersOfQuota == <<tokenVars, apiVars, mgrVars, concVars, retryVars, textVars,
    imageVars, hdrVars, raceVars, searchVars>>
othersOfText == <<tokenVars, apiVars, mgrVars, concVars, retryVars, quotaVars,
                  imageVars, hdrVars, raceVars, searchVars>>
othersOfImage == <<tokenVars, apiVars, mgrVars, concVars, retryVars,
                   quotaVars, textVars, hdrVars, raceVars, searchVars>>
othersOfHdr == <<tokenVars, apiVars, mgrVars, concVars, retryVars,
                 quotaVars, textVars, imageVars, raceVars, searchVars>>
othersOfRace == <<tokenVars, apiVars, mgrVars, concVars, retryVars,
                  quotaVars, textVars, imageVars, hdrVars, searchVars>>
othersOfSearch == <<tokenVars, apiVars, mgrVars, concVars, retryVars,
                    quotaVars, textVars, imageVars, hdrVars, raceVars>>

\* ------------------------------------------------------------------------
\* Token.__init__
\* ------------------------------------------------------------------------
Token_init ==
    [token |-> None, token_type |-> None, token_expires_in |-> None,
     token_fetched_at |-> None, token_implementation |-> "unset"]

\* allow_redirects of the request: False for the SAML replay and the token
\* exchange, True (given or by default) for every other request
AllowRedirects(name) == name \notin {"saml_replay", "token"}

\* get_code_verifier with one verifier for all the attempts of a call
get_code_verifier_Shared(path) ==
    IF \E i \in DOMAIN started : started[i] = path THEN 1 ELSE 0

\* _get_code_verifier: secrets.token_bytes(64), a fresh value at each call of
\* a path function; the value is named by the position of the attempt among
\* the attempts of this fetch_token call
get_code_verifier(path) ==
    IF \E i \in DOMAIN started : started[i] = path
    THEN CHOOSE i \in DOMAIN started : started[i] = path
    ELSE 0

\* _get_code: the S256 challenge of a verifier
get_code(code_verifier) == <<"S256", code_verifier>>

\* the code_challenge parameter of the authorization request
CodeChallenge(path, name) ==
    IF name = "authorize" THEN Some(get_code(get_code_verifier(path)))
    ELSE None

\* the code_verifier field of the token exchange
CodeVerifier(path, name) ==
    IF name = "token" THEN Some(get_code_verifier(path)) ELSE None

\* AuthIdFrom with the device-print carrying the authId of the init response
AuthIdFrom_InitOnly(name) ==
    IF name \in {"basic", "device_print"} THEN "init" ELSE "none"

\* the response whose tokens.authId the step puts into the authId header
\* right before it sends the request
AuthIdFrom(name) ==
    IF name = "basic" THEN "init"
    ELSE IF name = "device_print" THEN "basic"
    ELSE "none"

Req(path, name, via) ==
    [path |-> path, req |-> name, via |-> via,
     allow_redirects |-> AllowRedirects(name),
     code_challenge |-> CodeChallenge(path, name),
     code_verifier |-> CodeVerifier(path, name),
     authId_from |-> AuthIdFrom(name)]

\* ------------------------------------------------------------------------
\* How a call ends
\* ------------------------------------------------------------------------
\* has_valid_credentials: True on return, False on PostcardCreatorException,
\* any other exception passes through
hvcOnReturn(ent) == IF ent = "has_valid_credentials" THEN "True" ELSE "n/a"
hvcOnRaise(ent, e) ==
    IF ent = "has_valid_credentials"
    THEN (IF e.type = PCE THEN "False" ELSE "raised")
    ELSE "n/a"

\* the exception e leaves fetch_token
RaiseOut(e) ==
    /\ pc' = "raised"
    /\ exc' = e
    /\ hvc' = hvcOnRaise(entry, e)

\* PathRaises with a path that failed for the first time run once more
PathRaises_RunsAgain(path, e) ==
    /\ pathExc' = [pathExc EXCEPT ![path] = e]
    /\ IF pathExc[path] = NoExc
       THEN /\ pc' = IF path = "legacy" THEN "legacy_authorize"
                     ELSE "swissid_authorize"
            /\ started' = Append(started, path)
            /\ UNCHANGED <<exc, hvc>>
       ELSE IF path = "legacy" /\ method = "mixed"
       THEN /\ pc' = "swissid_authorize"
            /\ started' = Append(started, "swissid")
            /\ UNCHANGED <<exc, hvc>>
       ELSE /\ RaiseOut(e)
            /\ UNCHANGED started

\* PathRaises with the first exception kept as the final failure
PathRaises_FirstExcWins(path, e) ==
    /\ pathExc' = [pathExc EXCEPT ![path] = e]
    /\ IF path = "legacy" /\ method = "mixed"
       THEN /\ pc' = "swissid_authorize"
            /\ started' = Append(started, "swissid")
            /\ UNCHANGED <<exc, hvc>>
       ELSE /\ RaiseOut(IF pathExc["legacy"] # NoExc THEN pathExc["legacy"]
                        ELSE e)
            /\ UNCHANGED started

\* PathRaises with the fallback taken for every method but "swissid"
PathRaises_AlwaysFallback(path, e) ==
    /\ pathExc' = [pathExc EXCEPT ![path] = e]
    /\ IF path = "legacy"
       THEN /\ pc' = "swissid_authorize"
            /\ started' = Append(started, "swissid")
            /\ UNCHANGED <<exc, hvc>>
       ELSE /\ RaiseOut(e)
            /\ UNCHANGED started

\* the path raised e: the except clauses of fetch_token
PathRaises(path, e) ==
    /\ pathExc' = [pathExc EXCEPT ![path] = e]
    /\ IF path = "legacy" /\ method = "mixed"
       THEN /\ pc' = "swissid_authorize"
            /\ started' = Append(started, "swissid")
            /\ UNCHANGED <<exc, hvc>>
       ELSE /\ RaiseOut(e)
            /\ UNCHANGED started

\* PathReturns with the implementation recorded as "legacy" for both paths
PathReturns_AlwaysLegacy(path, body) ==
    /\ pc' = "store"
    /\ access_token' = body
    /\ implementation_type' = "legacy"
    /\ success' = IF path = "legacy" THEN TRUE ELSE success
    /\ tokenResp' = [tokenResp EXCEPT ![path] = body]
    /\ UNCHANGED <<exc, hvc, pathExc, started>>

\* the path returned resp.json()
PathReturns(path, body) ==
    /\ pc' = "store"
    /\ access_token' = body
    /\ implementation_type' = path
    /\ success' = IF path = "legacy" THEN TRUE ELSE success
    /\ tokenResp' = [tokenResp EXCEPT ![path] = body]
    /\ UNCHANGED <<exc, hvc, pathExc, started>>

Send(path, name, via) == reqLog' = Append(reqLog, Req(path, name, via))

Frame == UNCHANGED <<method, entry, cred, credBefore, now, nCalls, apiVars,
                     extVars>>
Seen == UNCHANGED tokenSeen
Locals == UNCHANGED <<access_token, implementation_type, success, tokenResp>>
Pages == UNCHANGED page

\* a request whose response is not inspected before the next request
PlainStep(path, name, next) ==
    /\ Send(path, name, "session")
    /\ \E o \in TransportOutcomes :
        IF o = "response"
        THEN /\ pc' = next
             /\ UNCHANGED <<exc, hvc, pathExc, started>>
        ELSE PathRaises(path, Exc(o, "transport", path))
    /\ Locals
    /\ Pages
    /\ Seen
    /\ Frame

\* ------------------------------------------------------------------------
\* Scraping and response checks shared by the two paths
\* ------------------------------------------------------------------------
\* ScrapeSaml without the test of the value attribute
ScrapeSaml_NoValueTest(path, saml, relay) ==
    IF saml = "absent"
    THEN Exc(PCE, "Username/password authentication failed", path)
    ELSE IF saml = "novalue" THEN Exc("KeyError", "SAMLResponse", path)
    ELSE IF relay = "absent" THEN Exc("TypeError", "RelayState", path)
    ELSE IF relay = "novalue" THEN Exc("KeyError", "RelayState", path)
    ELSE NoExc

\* find("input", {"name": "SAMLResponse"}) is None or has no value: the
\* authentication-failed error; then find(...RelayState)["value"]
ScrapeSaml(path, saml, relay) ==
    IF saml # "value"
    THEN Exc(PCE, "Username/password authentication failed", path)
    ELSE IF relay = "absent" THEN Exc("TypeError", "RelayState", path)
    ELSE IF relay = "novalue" THEN Exc("KeyError", "RelayState", path)
    ELSE NoExc

\* ExtractCode raising only when the Location header is missing
ExtractCode_OnlyMissingHeader(path, location) ==
    IF location = "absent"
    THEN Exc(PCE, "response does not have code attribute", path)
    ELSE NoExc

\* resp.headers["Location"], parse_qs(...)["code"][0] inside try/except
ExtractCode(path, location) ==
    IF location # "code"
    THEN Exc(PCE, "response does not have code attribute", path)
    ELSE NoExc

\* CheckTokenResponse without the test of the status
CheckTokenResponse_NoStatusTest(path, status, body) ==
    IF body.shape = "notjson" THEN Exc("JSONDecodeError", "token", path)
    ELSE IF ~HasAccessToken(body)
    THEN Exc(PCE, "not able to fetch access token", path)
    ELSE NoExc

\* the checks on the token endpoint response
CheckTokenResponse(path, status, body) ==
    IF body.shape = "notjson" THEN Exc("JSONDecodeError", "token", path)
    ELSE IF ~HasAccessToken(body) \/ status # 200
    THEN Exc(PCE, "not able to fetch access token", path)
    ELSE NoExc

\* TokenStep with the exchange sent through the session of the attempt
TokenStep_ViaSession(path) ==
    /\ Send(path, "token", "session")
    /\ \E o \in TransportOutcomes :
        IF o # "response"
        THEN PathRaises(path, Exc(o, "transport", path)) /\ Locals /\ Seen
        ELSE \E status \in TokenStatuses, body \in TokenBodies :
            LET e == CheckTokenResponse(path, status, body) IN
            /\ tokenSeen' = [tokenSeen EXCEPT
                    ![path] = [status |-> status, shape |-> body.shape]]
            /\ IF e # NoExc
               THEN PathRaises(path, e) /\ Locals
               ELSE PathReturns(path, body)
    /\ Pages
    /\ Frame

\* the token exchange request and what follows it in the path
TokenStep(path) ==
    /\ Send(path, "token", "requests")
    /\ \E o \in TransportOutcomes :
        IF o # "response"
        THEN PathRaises(path, Exc(o, "transport", path)) /\ Locals /\ Seen
        ELSE \E status \in TokenStatuses, body \in TokenBodies :
            LET e == CheckTokenResponse(path, status, body) IN
            /\ tokenSeen' = [tokenSeen EXCEPT
                    ![path] = [status |-> status, shape |-> body.shape]]
            /\ IF e # NoExc
               THEN PathRaises(path, e) /\ Locals
               ELSE PathReturns(path, body)
    /\ Pages
    /\ Frame

\* the SAML replay request and the extraction of the code
SamlReplayStep(path, next) ==
    /\ Send(path, "saml_replay", "session")
    /\ \E o \in TransportOutcomes :
        IF o # "response"
        THEN PathRaises(path, Exc(o, "transport", path)) /\ Pages
        ELSE \E location \in Locations :
            LET e == ExtractCode(path, location) IN
            /\ page' = [page EXCEPT ![path].location = location]
            /\ IF e # NoExc
               THEN PathRaises(path, e)
               ELSE /\ pc' = next
                    /\ UNCHANGED <<exc, hvc, pathExc, started>>
    /\ Locals
    /\ Seen
    /\ Frame

\* the request whose response page is scraped for SAMLResponse/RelayState
SamlPageStep(path, name, next) ==
    /\ Send(path, name, "session")
    /\ \E o \in TransportOutcomes :
        IF o # "response"
        THEN PathRaises(path, Exc(o, "transport", path)) /\ Pages
        ELSE \E saml \in InputTags, relay \in InputTags :
            LET e == ScrapeSaml(path, saml, relay) IN
            /\ page' = [page EXCEPT ![path].saml = saml, ![path].relay = relay]
            /\ IF e # NoExc
               THEN PathRaises(path, e)
               ELSE /\ pc' = next
                    /\ UNCHANGED <<exc, hvc, pathExc, started>>
    /\ Locals
    /\ Seen
    /\ Frame

\* ------------------------------------------------------------------------
\* Token._get_access_token_legacy
\* ------------------------------------------------------------------------
legacy_authorize ==
    /\ pc = "legacy_authorize"
    /\ PlainStep("legacy", "authorize", "legacy_login")

\* legacy_login that goes on to the SAML replay without the SAML page
legacy_login_SkipsSamlPage ==
    /\ pc = "legacy_login"
    /\ PlainStep("legacy", "login", "legacy_saml_replay")

legacy_login ==
    /\ pc = "legacy_login"
    /\ PlainStep("legacy", "login", "legacy_saml_page")

legacy_saml_page ==
    /\ pc = "legacy_saml_page"
    /\ SamlPageStep("legacy", "saml_page", "legacy_saml_replay")

legacy_saml_replay ==
    /\ pc = "legacy_saml_replay"
    /\ SamlReplayStep("legacy", "legacy_token")

legacy_token ==
    /\ pc = "legacy_token"
    /\ TokenStep("legacy")

\* ------------------------------------------------------------------------
\* Token._get_access_token_swissid
\* ------------------------------------------------------------------------
\* the Location of one redirect of the federated login: without a goto
\* parameter, with an empty one, with one
Redirects == {"no_goto", "empty_goto", "goto"}
\* resp.history of the federated login: the redirects it followed, in order
Histories == {<<>>, <<"no_goto">>, <<"empty_goto">>, <<"goto">>,
              <<"goto", "empty_goto">>, <<"empty_goto", "goto">>}
\* resp.history once resp is bound to the next response
NoHistory == <<"unseen">>
\* body of the auth-session init response
InitBodies == {"notjson", "no_authid", "authid"}
\* body of the credentials submission response
BasicBodies == {"notjson", "no_type", "no_authid", "other_type", "ok"}
\* body of the device-print response
DevicePrintBodies == {"notjson", "no_success_url", "success_url"}
\* the <form name="LoginForm"> of the successUrl page
FormTags == {"absent", "noaction", "action"}

\* ReadGoto reading the Location of the first redirect
ReadGoto_FirstRedirect(history) ==
    IF Len(history) = 0 THEN Exc(PCE, "fail to fetch", "swissid")
    ELSE LET step1_goto_url == history[1] IN
         IF step1_goto_url = "no_goto"
         THEN Exc("AttributeError", "goto", "swissid")
         ELSE IF step1_goto_url = "empty_goto"
         THEN Exc(PCE, "swissid: cannot fetch goto param", "swissid")
         ELSE NoExc

\* the goto parameter is read from the Location of the last redirect
ReadGoto(history) ==
    IF Len(history) = 0 THEN Exc(PCE, "fail to fetch", "swissid")
    ELSE LET step1_goto_url == history[Len(history)] IN
         IF step1_goto_url = "no_goto"
         THEN Exc("AttributeError", "goto", "swissid")
         ELSE IF step1_goto_url = "empty_goto"
         THEN Exc(PCE, "swissid: cannot fetch goto param", "swissid")
         ELSE NoExc

ReadAuthId(body) ==
    IF body = "notjson" THEN Exc("JSONDecodeError", "init", "swissid")
    ELSE IF body = "no_authid" THEN Exc("KeyError", "authId", "swissid")
    ELSE NoExc

\* _swiss_id_anomaly_detection up to its request: prev_response.json() is
\* outside the try, the field reads are inside
ReadDevicePrintCtx(body) ==
    IF body = "notjson" THEN Exc("JSONDecodeError", "basic", "swissid")
    ELSE IF body \in {"no_type", "no_authid"}
    THEN Exc(PCE, "Anomaly detection step failed", "swissid")
    ELSE NoExc

\* ReadSuccessUrl raising only when the body is not JSON
ReadSuccessUrl_OnlyNotJson(body) ==
    IF body = "notjson"
    THEN Exc(PCE, "failed to login, username/password wrong?", "swissid")
    ELSE NoExc

\* resp.json()["nextAction"]["successUrl"] inside try/except
ReadSuccessUrl(body) ==
    IF body # "success_url"
    THEN Exc(PCE, "failed to login, username/password wrong?", "swissid")
    ELSE NoExc

ReadLoginForm(form) ==
    IF form = "absent" THEN Exc("TypeError", "LoginForm", "swissid")
    ELSE IF form = "noaction" THEN Exc("KeyError", "action", "swissid")
    ELSE NoExc

\* a swissid request followed by a check e of its response
CheckedStep(name, next, e) ==
    /\ Send("swissid", name, "session")
    /\ IF e # NoExc
       THEN PathRaises("swissid", e)
       ELSE /\ pc' = next
            /\ UNCHANGED <<exc, hvc, pathExc, started>>
    /\ Locals
    /\ Seen
    /\ Frame

swissid_authorize ==
    /\ pc = "swissid_authorize"
    /\ PlainStep("swissid", "authorize", "swissid_federated_login")

swissid_federated_login ==
    /\ pc = "swissid_federated_login"
    /\ \E o \in TransportOutcomes, history \in Histories :
        IF o # "response"
        THEN /\ CheckedStep("federated_login", "swissid_status",
                            Exc(o, "transport", "swissid"))
             /\ Pages
        ELSE /\ CheckedStep("federated_login", "swissid_status",
                            ReadGoto(history))
             /\ page' = [page EXCEPT !["swissid"].redirects = history]

\* resp is bound to the response of the status request
swissid_status ==
    /\ pc = "swissid_status"
    /\ \E o \in TransportOutcomes :
        CheckedStep("status", "swissid_welcome_pack",
            IF o # "response" THEN Exc(o, "transport", "swissid")
            ELSE NoExc)
    /\ page' = [page EXCEPT !["swissid"].redirects = NoHistory]

swissid_welcome_pack ==
    /\ pc = "swissid_welcome_pack"
    /\ PlainStep("swissid", "welcome_pack", "swissid_init")

swissid_init ==
    /\ pc = "swissid_init"
    /\ \E o \in TransportOutcomes, body \in InitBodies :
        CheckedStep("init", "swissid_basic",
            IF o # "response" THEN Exc(o, "transport", "swissid")
            ELSE ReadAuthId(body))
    /\ Pages

swissid_basic ==
    /\ pc = "swissid_basic"
    /\ \E o \in TransportOutcomes, body \in BasicBodies :
        CheckedStep("basic", "swissid_device_print",
            IF o # "response" THEN Exc(o, "transport", "swissid")
            ELSE ReadDevicePrintCtx(body))
    /\ Pages

\* the device-print request is inside the try of the anomaly detection
swissid_device_print ==
    /\ pc = "swissid_device_print"
    /\ \E o \in TransportOutcomes, body \in DevicePrintBodies :
        IF o # "response"
        THEN /\ CheckedStep("device_print", "swissid_success_url",
                    Exc(PCE, "Anomaly detection step failed", "swissid"))
             /\ Pages
        ELSE /\ CheckedStep("device_print", "swissid_success_url",
                    ReadSuccessUrl(body))
             /\ page' = [page EXCEPT !["swissid"].device_print = body]

swissid_success_url ==
    /\ pc = "swissid_success_url"
    /\ \E o \in TransportOutcomes, form \in FormTags :
        CheckedStep("success_url", "swissid_login_form",
            IF o # "response" THEN Exc(o, "transport", "swissid")
            ELSE ReadLoginForm(form))
    /\ Pages

swissid_login_form ==
    /\ pc = "swissid_login_form"
    /\ SamlPageStep("swissid", "login_form", "swissid_saml_replay")

swissid_saml_replay ==
    /\ pc = "swissid_saml_replay"
    /\ SamlReplayStep("swissid", "swissid_token")

swissid_token ==
    /\ pc = "swissid_token"
    /\ TokenStep("swissid")

\* ------------------------------------------------------------------------
\* Token.fetch_token: the assignments after the paths
\* ------------------------------------------------------------------------
\* StoreToken without the assignment of token_fetched_at
StoreToken_KeepsFetchedAt(c, body, impl, t) ==
    IF ~HasTokenType(body)
    THEN [c EXCEPT !.token = Some(body.access_token)]
    ELSE IF ~HasExpiresIn(body)
    THEN [c EXCEPT !.token = Some(body.access_token),
                   !.token_type = Some("Bearer")]
    ELSE [token |-> Some(body.access_token),
          token_type |-> Some("Bearer"),
          token_expires_in |-> Some(body.expires_in),
          token_fetched_at |-> c.token_fetched_at,
          token_implementation |-> impl]

\* the fields are assigned one after the other; a missing key raises
\* KeyError at its line and leaves the earlier assignments in place
StoreToken(c, body, impl, t) ==
    IF ~HasTokenType(body)
    THEN [c EXCEPT !.token = Some(body.access_token)]
    ELSE IF ~HasExpiresIn(body)
    THEN [c EXCEPT !.token = Some(body.access_token),
                   !.token_type = Some("Bearer")]
    ELSE [token |-> Some(body.access_token),
          token_type |-> Some("Bearer"),
          token_expires_in |-> Some(body.expires_in),
          token_fetched_at |-> Some(t),
          token_implementation |-> impl]

StoreRaises(body) ==
    IF ~HasTokenType(body) THEN Exc("KeyError", "token_type", "store")
    ELSE IF ~HasExpiresIn(body) THEN Exc("KeyError", "expires_in", "store")
    ELSE NoExc

store ==
    /\ pc = "store"
    /\ cred' = StoreToken(cred, access_token, implementation_type, now)
    /\ IF StoreRaises(access_token) # NoExc
       THEN RaiseOut(StoreRaises(access_token))
       ELSE /\ pc' = "returned"
            /\ hvc' = hvcOnReturn(entry)
            /\ UNCHANGED exc
    /\ UNCHANGED <<method, entry, credBefore, now, nCalls, pathExc, started,
                   reqLog, page, tokenSeen, apiVars, extVars>>
    /\ Locals

\* ------------------------------------------------------------------------
\* Token.fetch_token / Token.has_valid_credentials: the start of a call
\* ------------------------------------------------------------------------
Paths == {"legacy", "swissid"}
NoResp == [p \in Paths |-> NoBody]
NoPathExc == [p \in Paths |-> NoExc]
NoPage == [saml |-> "unseen", relay |-> "unseen", location |-> "unseen",
           redirects |-> <<"unseen">>, device_print |-> "unseen"]
NoPages == [p \in Paths |-> NoPage]
NoTokenResponse == [status |-> 0, shape |-> "none"]
NoSeen == [p \in Paths |-> NoTokenResponse]

Call(ent, m) ==
    /\ pc \in {"idle", "returned", "raised"}
    /\ nCalls < MaxCalls
    /\ nCalls' = nCalls + 1
    /\ entry' = ent
    /\ method' = m
    /\ credBefore' = cred
    /\ reqLog' = <<>>
    /\ pathExc' = NoPathExc
    /\ page' = NoPages
    /\ access_token' = NoBody
    /\ implementation_type' = ""
    /\ success' = FALSE
    /\ tokenResp' = NoResp
    /\ IF m \notin Methods
       THEN /\ pc' = "raised"
            /\ exc' = Exc(PCE, "unknown method", "args")
            /\ hvc' = hvcOnRaise(ent, exc')
            /\ started' = <<>>
       ELSE /\ pc' = IF m # "swissid" THEN "legacy_authorize"
                     ELSE "swissid_authorize"
            /\ started' = IF m # "swissid" THEN <<"legacy">> ELSE <<"swissid">>
            /\ exc' = NoExc
            /\ hvc' = "n/a"
    /\ tokenSeen' = NoSeen
    /\ UNCHANGED <<cred, now, apiVars, extVars>>

fetch_token == \E m \in MethodInputs : Call("fetch_token", m)

has_valid_credentials == \E m \in MethodInputs : Call("has_valid_credentials", m)

\* time passes
Tick ==
    /\ now < MaxTime
    /\ now' = now + 1
    /\ UNCHANGED <<pc, method, entry, cred, credBefore, access_token,
                   implementation_type, success, exc, pathExc, page, hvc,
                   reqLog, started, tokenResp, tokenSeen, nCalls, apiVars,
                   extVars>>

\* ------------------------------------------------------------------------
\* PostcardCreator: the REST facade
\* ------------------------------------------------------------------------
MaxOps == 2

OkStatuses == {200, 201, 204}
Statuses == OkStatuses \cup {400, 500}
\* the errors member of the envelope
ErrorsShapes == {"absent", "empty", "nonempty"}
ModelIds == {"m1", "m2"}
\* the model of GET /user/quota
QuotaModels == [id : {"quota"}, available : BOOLEAN, next : {"None", "date"}]
\* the model of the other endpoints
OtherModels == [id : ModelIds, available : {TRUE}, next : {"None"}]
NoModel == [id |-> "none", available |-> TRUE, next |-> "None"]
NoResponse == [status |-> 0, errors |-> "absent", model |-> NoModel]
Responses(models) == [status : Statuses, errors : ErrorsShapes, model : models]

Pictures == {"picA", "picB"}
\* postcard argument: None or a postcard with one of the pictures
Postcards == {"None"} \cup Pictures

Endpoint(op) ==
    CASE op = "get_quota" -> "/user/quota"
      [] op = "get_user_info" -> "/user/current"
      [] op = "get_billing_saldo" -> "/billingOnline/accountSaldo"
      [] OTHER -> "/card/upload"

Rest(m, endpoint) == [method |-> m, endpoint |-> endpoint]

NoResult == [kind |-> "none", model |-> NoModel]
Returned(m) == [kind |-> "model", model |-> m]
ReturnedFalse == [kind |-> "False", model |-> NoModel]

\* _do_op: the status check on the response
do_op(resp) ==
    IF resp.status \notin OkStatuses
    THEN Exc(PCE, "error in request", "do_op")
    ELSE NoExc

\* validate_model_response that accepts every envelope
validate_model_response_Accepts(resp) == NoExc

\* _validate_model_response: payload.get("errors") is truthy
validate_model_response(resp) ==
    IF resp.errors = "nonempty"
    THEN Exc(PCE, "cannot fetch", "validate")
    ELSE NoExc

\* one REST call followed by the validation of its envelope
CallOutcome(resp) ==
    IF do_op(resp) # NoExc THEN do_op(resp)
    ELSE validate_model_response(resp)

ApiIdle == apiPc \in {"idle", "done"}

ApiStart(op) ==
    /\ ApiIdle
    /\ nOps < MaxOps
    /\ nOps' = nOps + 1
    /\ apiOp' = op

\* get_quota, get_user_info, get_billing_saldo
Getter(op, models) ==
    /\ ApiStart(op)
    /\ apiLog' = <<Rest("get", Endpoint(op))>>
    /\ apiPc' = "done"
    /\ \E o \in TransportOutcomes :
        IF o # "response"
        THEN /\ apiExc' = Exc(o, "transport", "session")
             /\ apiResult' = NoResult
             /\ lastResp' = NoResponse
        ELSE \E resp \in Responses(models) :
            /\ lastResp' = resp
            /\ apiExc' = CallOutcome(resp)
            /\ apiResult' = IF CallOutcome(resp) # NoExc THEN NoResult
                            ELSE Returned(resp.model)
    /\ UNCHANGED <<mock_send, payload, logged, quotaSeen, backendQuota>>
    /\ UNCHANGED <<tokenVars, extVars>>

get_quota == Getter("get_quota", {backendQuota})

get_user_info == Getter("get_user_info", OtherModels)

get_billing_saldo == Getter("get_billing_saldo", OtherModels)

\* the quota of the account changes at the backend
backend_quota_changes ==
    /\ \E q \in QuotaModels : q # backendQuota /\ backendQuota' = q
    /\ UNCHANGED <<apiPc, apiOp, apiLog, apiResult, apiExc, lastResp, mock_send,
                   payload, logged, quotaSeen, nOps>>
    /\ UNCHANGED <<tokenVars, extVars>>

\* ------------------------------------------------------------------------
\* PostcardCreator.send_free_card
\* ------------------------------------------------------------------------
\* base64 of the scaled cover picture
B64(pic) == IF pic = "picA" THEN "b64:picA" ELSE "b64:picB"

PayloadKeys == {"lang", "paid", "recipient", "sender", "text", "textImage",
                "image", "stamp"}
NoPayload == [k \in PayloadKeys |-> "unset"]

BuildPayload(pic) ==
    [k \in PayloadKeys |->
        CASE k = "lang" -> "en"
          [] k = "paid" -> "False"
          [] k = "recipient" -> "recipient"
          [] k = "sender" -> "sender"
          [] k = "text" -> ""
          [] k = "textImage" -> "b64:text"
          [] k = "image" -> B64(pic)
          [] OTHER -> "None"]

\* MockLog with the redaction written into the payload itself
MockLog_Alias(p) ==
    LET copy == [p EXCEPT !["textImage"] = "omitted", !["image"] = "omitted"]
    IN [payload |-> copy, logged |-> copy]

\* copy = dict(payload) with textImage and image replaced, then logged
MockLog(p) ==
    LET copy == [p EXCEPT !["textImage"] = "omitted", !["image"] = "omitted"]
    IN [payload |-> p, logged |-> copy]

send_free_card ==
    /\ ApiStart("send_free_card")
    /\ apiLog' = <<>>
    /\ lastResp' = NoResponse
    /\ quotaSeen' = NoModel
    /\ \E postcard \in Postcards, m \in BOOLEAN :
        /\ mock_send' = m
        /\ IF postcard = "None"
           THEN /\ apiExc' = Exc(PCE, "Postcard must be set", "send_free_card")
                /\ apiResult' = NoResult
                /\ apiPc' = "done"
                /\ payload' = NoPayload
                /\ logged' = NoPayload
           ELSE IF m
           THEN /\ payload' = MockLog(BuildPayload(postcard)).payload
                /\ logged' = MockLog(BuildPayload(postcard)).logged
                /\ apiResult' = ReturnedFalse
                /\ apiExc' = NoExc
                /\ apiPc' = "done"
           ELSE /\ payload' = BuildPayload(postcard)
                /\ logged' = NoPayload
                /\ apiResult' = NoResult
                /\ apiExc' = NoExc
                /\ apiPc' = "has_free_postcard"
    /\ UNCHANGED backendQuota
    /\ UNCHANGED <<tokenVars, extVars>>

SendFrame ==
    /\ UNCHANGED <<apiOp, mock_send, payload, logged, backendQuota, nOps>>
    /\ UNCHANGED <<tokenVars, extVars>>

SendRaises(e) ==
    /\ apiExc' = e
    /\ apiResult' = NoResult
    /\ apiPc' = "done"

\* has_free_postcard(): get_quota()["available"]
send_has_free_postcard ==
    /\ apiPc = "has_free_postcard"
    /\ apiLog' = Append(apiLog, Rest("get", Endpoint("get_quota")))
    /\ \E o \in TransportOutcomes :
        IF o # "response"
        THEN /\ SendRaises(Exc(o, "transport", "session"))
             /\ lastResp' = NoResponse
             /\ UNCHANGED quotaSeen
        ELSE \E resp \in Responses({backendQuota}) :
            /\ lastResp' = resp
            /\ IF CallOutcome(resp) # NoExc
               THEN SendRaises(CallOutcome(resp)) /\ UNCHANGED quotaSeen
               ELSE /\ quotaSeen' = resp.model
                    /\ apiPc' = IF resp.model.available THEN "upload"
                                ELSE "quota_next"
                    /\ UNCHANGED <<apiExc, apiResult>>
    /\ SendFrame

\* the error of an exhausted quota: get_quota()["next"] is read for its text
send_quota_next ==
    /\ apiPc = "quota_next"
    /\ apiLog' = Append(apiLog, Rest("get", Endpoint("get_quota")))
    /\ \E o \in TransportOutcomes :
        IF o # "response"
        THEN /\ SendRaises(Exc(o, "transport", "session"))
             /\ lastResp' = NoResponse
        ELSE \E resp \in Responses({backendQuota}) :
            /\ lastResp' = resp
            /\ IF CallOutcome(resp) # NoExc
               THEN SendRaises(CallOutcome(resp))
               ELSE IF resp.model.next = "None"
               THEN SendRaises(Exc("TypeError", "next", "send_free_card"))
               ELSE SendRaises(Exc(PCE, "Limit of free postcards exceeded",
                                   "send_free_card"))
    /\ UNCHANGED quotaSeen
    /\ SendFrame

\* the upload
send_upload ==
    /\ apiPc = "upload"
    /\ apiLog' = Append(apiLog, Rest("post", Endpoint("send_free_card")))
    /\ \E o \in TransportOutcomes :
        IF o # "response"
        THEN /\ SendRaises(Exc(o, "transport", "session"))
             /\ lastResp' = NoResponse
        ELSE \E resp \in Responses(OtherModels) :
            /\ lastResp' = resp
            /\ IF CallOutcome(resp) # NoExc
               THEN SendRaises(CallOutcome(resp))
               ELSE /\ apiResult' = Returned(resp.model)
                    /\ apiPc' = "done"
                    /\ UNCHANGED apiExc
    /\ UNCHANGED quotaSeen
    /\ SendFrame

\* ------------------------------------------------------------------------
\* postcard_creator_server: the error mapping of send_card
\* ------------------------------------------------------------------------
\* HTTP status of the response for an exception of the send; 0: not handled
send_card_status(e) ==
    IF e.type = "FreeQuotaExceededException" THEN 429
    ELSE IF e.type = PCE THEN 500
    ELSE 0

InitApi ==
    /\ apiPc = "idle"
    /\ apiOp = "none"
    /\ apiLog = <<>>
    /\ apiResult = NoResult
    /\ apiExc = NoExc
    /\ lastResp = NoResponse
    /\ mock_send = FALSE
    /\ payload = NoPayload
    /\ logged = NoPayload
    /\ quotaSeen = NoModel
    /\ backendQuota = [id |-> "quota", available |-> TRUE, next |-> "None"]
    /\ nOps = 0

NextApi ==
    \/ get_quota
    \/ get_user_info
    \/ get_billing_saldo
    \/ send_free_card
    \/ send_has_free_postcard
    \/ send_quota_next
    \/ send_upload
    \/ backend_quota_changes

\* ------------------------------------------------------------------------
\* Specification of the credential acquisition
\* ------------------------------------------------------------------------
vars == <<tokenVars, apiVars, extVars>>

\* ------------------------------------------------------------------------
\* Token.is_expired, as TokenManager.get calls it
\* ------------------------------------------------------------------------
\* usable only while now < fetched_at + expires_in; never fetched is expired
is_expired(c, t) ==
    IF c.token_fetched_at = None \/ c.token_expires_in = None
    THEN TRUE
    ELSE t >= c.token_fetched_at[1] + c.token_expires_in[1]

\* ------------------------------------------------------------------------
\* TokenManager (postcard_creator_server/_token.py)
\* ------------------------------------------------------------------------
MaxGets == 3

Users == {"alice", "bob"}
Passwords == {"right", "wrong"}

\* no entry in _tokens
NoToken == [id |-> 0, cred |-> Token_init]
NoGet == [user |-> "", password |-> "", cached |-> 0, expired |-> FALSE,
          fetched |-> FALSE, logins |-> 0, result |-> "none", obj |-> 0]

\* self._tokens[creds.username], or a new Token() stored under the username
Lookup(u) ==
    IF tokens[u].id # 0 THEN tokens[u]
    ELSE [id |-> nTokens + 1, cred |-> Token_init]

\* ShouldFetch with the token fetched on every call
ShouldFetch_Always(c, t) == TRUE

\* if token.is_expired():
ShouldFetch(c, t) == is_expired(c, t)

\* the identity provider issues a token only for the password of the account
Accepts(u, pw) == pw = "right"

\* TokenManager.get with a token that is not expired
get_cached ==
    /\ nGets < MaxGets
    /\ nGets' = nGets + 1
    /\ \E u \in Users, pw \in Passwords :
        LET tok == Lookup(u) IN
        /\ ~ShouldFetch(tok.cred, now)
        /\ tokens' = [tokens EXCEPT ![u] = tok]
        /\ nTokens' = IF tokens[u].id = 0 THEN nTokens + 1 ELSE nTokens
        /\ mgrCall' = [user |-> u, password |-> pw, cached |-> tokens[u].id,
                       expired |-> is_expired(tok.cred, now),
                       fetched |-> FALSE, logins |-> 0,
                       result |-> "returned", obj |-> tok.id]
    /\ UNCHANGED othersOfMgr

\* TokenManager.get with an expired token: token.fetch_token(username,
\* password) runs; it raises in its paths, or stores the body a path returned
get_fetch ==
    /\ nGets < MaxGets
    /\ nGets' = nGets + 1
    /\ \E u \in Users, pw \in Passwords :
        LET tok == Lookup(u) IN
        /\ ShouldFetch(tok.cred, now)
        /\ nTokens' = IF tokens[u].id = 0 THEN nTokens + 1 ELSE nTokens
        /\ \/ /\ tokens' = [tokens EXCEPT ![u] = tok]
              /\ mgrCall' = [user |-> u, password |-> pw,
                             cached |-> tokens[u].id,
                             expired |-> is_expired(tok.cred, now),
                             fetched |-> TRUE, logins |-> 1,
                             result |-> "raised", obj |-> 0]
           \/ /\ Accepts(u, pw)
              /\ \E body \in TokenBodies, impl \in Paths :
                  /\ HasAccessToken(body)
                  /\ tokens' = [tokens EXCEPT ![u] =
                        [id |-> tok.id,
                         cred |-> StoreToken(tok.cred, body, impl, now)]]
                  /\ mgrCall' = [user |-> u, password |-> pw,
                                 cached |-> tokens[u].id,
                                 expired |-> is_expired(tok.cred, now),
                                 fetched |-> TRUE, logins |-> 1,
                                 result |-> IF StoreRaises(body) # NoExc
                                            THEN "raised" ELSE "returned",
                                 obj |-> IF StoreRaises(body) # NoExc
                                         THEN 0 ELSE tok.id]
    /\ UNCHANGED othersOfMgr

\* time passes between two calls of the server
TickMgr ==
    /\ now < MaxTime
    /\ now' = now + 1
    /\ UNCHANGED <<pc, method, entry, cred, credBefore, access_token,
                   implementation_type, success, exc, pathExc, page, hvc,
                   reqLog, started, tokenResp, tokenSeen, nCalls, apiVars,
                   extVars>>

InitMgr ==
    /\ tokens = [u \in Users |-> NoToken]
    /\ mgrCall = NoGet
    /\ nTokens = 0
    /\ nGets = 0

NextMgr ==
    \/ get_cached
    \/ get_fetch
    \/ TickMgr

\* ------------------------------------------------------------------------
\* Two threads of the server on one Token object: fetch_token assigning the
\* fields and AuthToken.from_token reading them, one field per step
\* ------------------------------------------------------------------------
\* the credential the Token object holds before the re-fetch
OldCred ==
    StoreToken(Token_init, [shape |-> "full", access_token |-> "abc",
                            expires_in |-> 1], "legacy", 0)

NoRefetch == [body |-> NoBody, impl |-> "unset", t |-> 0]
NewCred(w) == StoreToken(Token_init, w.body, w.impl, w.t)

\* the order in which fetch_token assigns the fields
FieldsWritten == <<"token", "token_type", "token_expires_in",
                   "token_fetched_at", "token_implementation">>
\* the order in which AuthToken.from_token reads the fields
FieldsRead == <<"token_fetched_at", "token", "token_expires_in",
                "token_type", "token_implementation">>

\* thread 1 has the token body of a path and reaches the assignments
refetch_begin ==
    /\ wPc = 0
    /\ \E body \in TokenBodies, impl \in Paths, t \in 1..MaxTime :
        /\ HasExpiresIn(body)
        /\ wNew' = [body |-> body, impl |-> impl, t |-> t]
    /\ wPc' = 1
    /\ UNCHANGED <<shared, rPc, snap, othersOfConc>>

\* thread 1 assigns the next field
refetch_assign ==
    /\ wPc \in 1..Len(FieldsWritten)
    /\ shared' = [shared EXCEPT
                    ![FieldsWritten[wPc]] = NewCred(wNew)[FieldsWritten[wPc]]]
    /\ wPc' = wPc + 1
    /\ UNCHANGED <<wNew, rPc, snap, othersOfConc>>

\* thread 2 enters AuthToken.from_token
from_token_begin ==
    /\ rPc = 0
    /\ rPc' = 1
    /\ UNCHANGED <<shared, wPc, wNew, snap, othersOfConc>>

\* thread 2 reads the next field
from_token_read ==
    /\ rPc \in 1..Len(FieldsRead)
    /\ snap' = [snap EXCEPT ![FieldsRead[rPc]] = shared[FieldsRead[rPc]]]
    /\ rPc' = rPc + 1
    /\ UNCHANGED <<shared, wPc, wNew, othersOfConc>>

InitConc ==
    /\ shared = OldCred
    /\ wPc = 0
    /\ wNew = NoRefetch
    /\ rPc = 0
    /\ snap = Token_init

NextConc ==
    \/ refetch_begin
    \/ refetch_assign
    \/ from_token_begin
    \/ from_token_read

\* ------------------------------------------------------------------------
\* Token._create_session: the session whose adapter retries as configured
\* ------------------------------------------------------------------------
MaxReqs == 2

\* retries = 5
Retries == 5
StatusForcelist == {500, 502, 504}
\* the methods Retry re-sends by default, of those the flow uses
AllowedMethods == {"GET"}
HttpMethods == {"GET", "POST"}
\* the statuses for which Retry honours a Retry-After header by default
RetryAfterStatusCodes == {413, 429, 503}

RespStatuses == {200, 401, 413, 429, 500, 502, 503, 504}
\* what one attempt ends with: an error of the connection, an error while
\* reading, or a response (with or without Retry-After header; a 200 with or
\* without an error payload in its body)
Outcomes ==
    {[kind |-> k, status |-> 0, retry_after |-> FALSE, errors |-> FALSE] :
        k \in {"connect_error", "read_error"}}
    \cup {[kind |-> "response", status |-> st, retry_after |-> ra,
           errors |-> e] :
        st \in RespStatuses, ra \in BOOLEAN, e \in BOOLEAN}
NoOutcome == [kind |-> "none", status |-> 0, retry_after |-> FALSE,
              errors |-> FALSE]

is_method_retryable(m) == m \in AllowedMethods

\* Retry.is_retry that re-sends on every error status
is_retry_AllErrors(m, status, has_retry_after, total) == status >= 400

\* Retry.is_retry for the configured Retry
is_retry(m, status, has_retry_after, total) ==
    IF ~is_method_retryable(m) THEN FALSE
    ELSE IF status \in StatusForcelist THEN TRUE
    ELSE total # 0 /\ has_retry_after /\ status \in RetryAfterStatusCodes

\* Retry.is_exhausted on the counters after an increment
is_exhausted(total, connect, read) ==
    total < 0 \/ connect < 0 \/ read < 0

\* session.get / session.post hands the request to the adapter
session_send ==
    /\ rState \in {"idle", "returned", "raised"}
    /\ nReqs < MaxReqs
    /\ nReqs' = nReqs + 1
    /\ \E m \in HttpMethods : rMethod' = m
    /\ rState' = "inflight"
    /\ rAttempts' = 0
    /\ rLast' = NoOutcome
    /\ rTotal' = Retries /\ rConnect' = Retries /\ rRead' = Retries
    /\ UNCHANGED othersOfRetry

\* an attempt fails to connect: re-sent for any method until exhausted
attempt_connect_error ==
    /\ rState = "inflight"
    /\ rAttempts' = rAttempts + 1
    /\ rLast' = [NoOutcome EXCEPT !.kind = "connect_error"]
    /\ rTotal' = rTotal - 1 /\ rConnect' = rConnect - 1
    /\ rState' = IF is_exhausted(rTotal', rConnect', rRead)
                 THEN "raised" ELSE "inflight"
    /\ UNCHANGED <<rMethod, rRead, nReqs, othersOfRetry>>

\* an attempt fails while reading: re-sent for a retryable method only
attempt_read_error ==
    /\ rState = "inflight"
    /\ rAttempts' = rAttempts + 1
    /\ rLast' = [NoOutcome EXCEPT !.kind = "read_error"]
    /\ IF ~is_method_retryable(rMethod)
       THEN rState' = "raised" /\ UNCHANGED <<rTotal, rRead>>
       ELSE /\ rTotal' = rTotal - 1 /\ rRead' = rRead - 1
            /\ rState' = IF is_exhausted(rTotal', rConnect, rRead')
                         THEN "raised" ELSE "inflight"
    /\ UNCHANGED <<rMethod, rConnect, nReqs, othersOfRetry>>

\* an attempt ends with a response
attempt_response ==
    /\ rState = "inflight"
    /\ rAttempts' = rAttempts + 1
    /\ \E o \in Outcomes :
        /\ o.kind = "response"
        /\ o.errors => o.status = 200
        /\ rLast' = o
        /\ IF is_retry(rMethod, o.status, o.retry_after, rTotal)
           THEN /\ rTotal' = rTotal - 1
                /\ rState' = IF is_exhausted(rTotal', rConnect, rRead)
                             THEN "raised" ELSE "inflight"
           ELSE rState' = "returned" /\ UNCHANGED rTotal
    /\ UNCHANGED <<rMethod, rConnect, rRead, nReqs, othersOfRetry>>

attempt == attempt_connect_error \/ attempt_read_error \/ attempt_response

InitRetry ==
    /\ rState = "idle"
    /\ rMethod = "GET"
    /\ rAttempts = 0
    /\ rLast = NoOutcome
    /\ rTotal = Retries /\ rConnect = Retries /\ rRead = Retries
    /\ nReqs = 0

NextRetry ==
    \/ session_send
    \/ attempt_connect_error
    \/ attempt_read_error
    \/ attempt_response

\* ------------------------------------------------------------------------
\* Quota.from_model
\* ------------------------------------------------------------------------
MaxQuotas == 3
MaxDay == 2

\* a JSON value under a key of the model: the key is absent, the value is
\* null, an ISO date string of a day, or a string that is no ISO date
Absent == [tag |-> "absent", day |-> 0]
Null == [tag |-> "null", day |-> 0]
IsoString(d) == [tag |-> "iso", day |-> d]
Text == [tag |-> "text", day |-> 0]
NextValues == {Absent, Null, Text} \cup {IsoString(d) : d \in 1..MaxDay}

\* the dictionaries of the quota endpoint: "quota", "end", "retentionDays"
\* well-formed, "available" a JSON boolean, "next" any of NextValues
FromModelInputs ==
    [quota : 0..1, end : {IsoString(d) : d \in 1..MaxDay},
     available : BOOLEAN, next : NextValues]
NoQuotaModel == [quota |-> 0, end |-> Absent, available |-> TRUE,
                 next |-> Absent]

\* datetime.fromisoformat(model[key]): the date, or the exception
fromisoformat(v) ==
    IF v.tag = "absent" THEN [exc |-> "KeyError", date |-> None]
    ELSE IF v.tag = "null" THEN [exc |-> "TypeError", date |-> None]
    ELSE IF v.tag = "text" THEN [exc |-> "ValueError", date |-> None]
    ELSE [exc |-> "none", date |-> Some(v.day)]

NoQuota == [quota |-> 0, end |-> None, available |-> TRUE, next |-> None,
            made |-> FALSE]

\* the exception Quota.from_model leaves with, "none" when it returns
from_model_raises(model) ==
    IF fromisoformat(model.next).exc = "ValueError" THEN "ValueError"
    ELSE fromisoformat(model.end).exc

\* the Quota Quota.from_model returns
from_model(model) ==
    [quota |-> model.quota,
     end |-> fromisoformat(model.end).date,
     available |-> model.available,
     next |-> IF fromisoformat(model.next).exc \in {"KeyError", "TypeError"}
              THEN None
              ELSE fromisoformat(model.next).date,
     made |-> TRUE]

\* one call of Quota.from_model
from_model_call ==
    /\ nQuotas < MaxQuotas
    /\ nQuotas' = nQuotas + 1
    /\ \E model \in FromModelInputs :
        /\ qModel' = model
        /\ qExc' = from_model_raises(model)
        /\ qValue' = IF from_model_raises(model) # "none" THEN NoQuota
                     ELSE from_model(model)
    /\ UNCHANGED othersOfQuota

InitQuota ==
    /\ qModel = NoQuotaModel
    /\ qValue = NoQuota
    /\ qExc = "none"
    /\ nQuotas = 0

NextQuota == from_model_call

\* ------------------------------------------------------------------------
\* create_text_image: find_optimal_size
\* ------------------------------------------------------------------------
MaxTexts == 2
MaxTextLen == 30

text_canvas_w == 720
text_canvas_h == 744
min_size == 20
max_size == 400
min_line_w == 1
max_line_w == 80
line_padding == 70
padding == 50

\* the texts: one line of n characters without whitespace
Texts == 1..MaxTextLen

\* _get_font_bbox_dim for the bundled font: the width of n digits "1" and
\* the height of a line at a font size, both growing with the size
CharW(size) == (size * 3) \div 5
LineH(size) == size
BBoxW(size, n) == n * CharW(size)

\* the loop of line_width: the line width probed last
RECURSIVE line_width_loop(_, _, _, _)
line_width_loop(font_size, left, right, n) ==
    IF left < right
    THEN LET m == (left + right) \div 2 IN
         IF BBoxW(font_size, m) + 2 * line_padding >= text_canvas_w
         THEN line_width_loop(font_size, left, m - 1, m)
         ELSE line_width_loop(font_size, m + 1, right, m)
    ELSE n

line_width(font_size) == line_width_loop(font_size, min_line_w, max_line_w, 0)

\* len(textwrap.wrap(line, width)) for a line of n characters without
\* whitespace: long words are broken at the width
WrappedLines(n, width) == (n + width - 1) \div width

tot_height(n, size) == WrappedLines(n, line_width(size)) * LineH(size)

\* the test of find_optimal_size for "does fit"
DoesFit(n, size) == tot_height(n, size) + 2 * padding < text_canvas_h

\* find_optimal_size(text, padding=50) is entered
find_optimal_size_begin ==
    /\ tPc \in {"idle", "done"}
    /\ nTexts < MaxTexts
    /\ nTexts' = nTexts + 1
    /\ \E n \in Texts : msg' = n
    /\ size_l' = min_size
    /\ size_r' = max_size
    /\ last_size' = 0
    /\ last_line_w' = 0
    /\ tPc' = "search"
    /\ UNCHANGED <<chosen, othersOfText>>

\* one pass of the loop "while size_l < size_r"
find_optimal_size_probe ==
    /\ tPc = "search"
    /\ size_l < size_r
    /\ LET size == (size_l + size_r) \div 2 IN
        /\ last_size' = size
        /\ last_line_w' = line_width(size)
        /\ IF DoesFit(msg, size)
           THEN size_l' = size + 1 /\ UNCHANGED size_r
           ELSE size_r' = size - 1 /\ UNCHANGED size_l
    /\ UNCHANGED <<tPc, msg, chosen, nTexts, othersOfText>>

\* "return last_size, last_line_w"
find_optimal_size_return ==
    /\ tPc = "search"
    /\ ~(size_l < size_r)
    /\ tPc' = "done"
    /\ chosen' = [chosen EXCEPT ![msg] = last_size]
    /\ UNCHANGED <<msg, size_l, size_r, last_size, last_line_w, nTexts,
                   othersOfText>>

InitText ==
    /\ tPc = "idle"
    /\ msg = 1
    /\ size_l = min_size
    /\ size_r = max_size
    /\ last_size = 0
    /\ last_line_w = 0
    /\ chosen = [n \in Texts |-> 0]
    /\ nTexts = 0

NextText ==
    \/ find_optimal_size_begin
    \/ find_optimal_size_probe
    \/ find_optimal_size_return

\* ------------------------------------------------------------------------
\* The images of send_free_card: rotate_and_scale_image on the picture and
\* create_text_cover on the message
\* ------------------------------------------------------------------------
MaxSends == 2

image_target_width == 1819
image_target_height == 1311
image_quality_factor == 1

\* widths and heights of the pictures, around the target box
SourceSides == {1000, 1311, 1818, 1819, 2000}
NoImage == <<0, 0>>

\* image_rotate as the caller of send_free_card gives it: left out, or a bool
RotateRequests == {None, Some(TRUE), Some(FALSE)}

\* _send_free_card_defaults: kwargs.get("image_rotate") or True
send_free_card_defaults(requested) ==
    IF requested # None /\ requested[1] THEN requested[1] ELSE TRUE

\* "if image_rotate and image.width < image.height: rotate(90, expand=True)"
\* with image_rotate as send_free_card passes it on in kwargs
Rotated(img) ==
    IF send_free_card_defaults(rotate_requested) /\ img[1] < img[2]
    THEN <<img[2], img[1]>>
    ELSE img

\* the box handed to the resize
TargetBox == <<image_target_width * image_quality_factor,
               image_target_height * image_quality_factor>>

CeilDiv(a, b) == (a + b - 1) \div b

\* resize_cover: scale by the larger of the two ratios, then crop to the box
ScaledToCover(img, box) ==
    IF box[1] * img[2] >= box[2] * img[1]
    THEN <<box[1], CeilDiv(img[2] * box[1], img[1])>>
    ELSE <<CeilDiv(img[1] * box[2], img[2]), box[2]>>
Min(a, b) == IF a < b THEN a ELSE b
Cropped(img, box) == <<Min(img[1], box[1]), Min(img[2], box[2])>>
resize_cover(img, box) == Cropped(ScaledToCover(img, box), box)

\* resize_contain: the picture pasted on a background of the size of the box
resize_contain(img, box) == box

\* the outcomes of the size validation of resize_cover: it rejects a picture
\* smaller than the box in both dimensions and accepts one that is smaller
\* in none; for a picture smaller in one dimension either outcome is taken
TooSmallOutcomes(img, box) ==
    IF img[1] < box[1] /\ img[2] < box[2] THEN {TRUE}
    ELSE IF img[1] >= box[1] /\ img[2] >= box[2] THEN {FALSE}
    ELSE BOOLEAN

\* validate with the size validation always on
Validate_Always(fallback) == TRUE

\* "validate=fallback_color_fill"
Validate(fallback) == fallback

\* create_text_cover: "create_text_image(msg, image_export=True)"
TextCoverExports(requested) == TRUE

\* send_free_card opens the picture of the postcard
image_open ==
    /\ iPc \in {"idle", "done"}
    /\ nSends < MaxSends
    /\ nSends' = nSends + 1
    /\ \E w \in SourceSides, h \in SourceSides :
        image' = <<w, h>> /\ source' = <<w, h>>
    /\ \E r \in RotateRequests : rotate_requested' = r
    /\ \E e \in BOOLEAN : export_requested' = e /\ image_export' = e
    /\ \E f \in BOOLEAN : fallback_color_fill' = f
    /\ resize_path' = "none"
    /\ cover' = NoImage
    /\ files' = {}
    /\ iPc' = "opened"
    /\ UNCHANGED othersOfImage

image_rotate ==
    /\ iPc = "opened"
    /\ image' = Rotated(image)
    /\ iPc' = "rotated"
    /\ UNCHANGED <<export_requested, image_export, fallback_color_fill,
                   resize_path, cover, files, nSends, rotate_requested,
                   source, othersOfImage>>

\* the try block: resize_cover, or resize_contain when it raises
image_resize ==
    /\ iPc = "rotated"
    /\ \E too_small \in TooSmallOutcomes(image, TargetBox) :
        IF Validate(fallback_color_fill) /\ too_small
        THEN /\ resize_path' = "contain"
             /\ cover' = resize_contain(image, TargetBox)
             /\ image_export' = TRUE
        ELSE /\ resize_path' = "cover"
             /\ cover' = resize_cover(image, TargetBox)
             /\ UNCHANGED image_export
    /\ iPc' = "resized"
    /\ UNCHANGED <<image, export_requested, fallback_color_fill, files,
                   nSends, rotate_requested,
                   source, othersOfImage>>

\* "if image_export: cover.save(path)"
image_export_cover ==
    /\ iPc = "resized"
    /\ files' = IF image_export THEN files \cup {"cover"} ELSE files
    /\ iPc' = "cover_done"
    /\ UNCHANGED <<image, export_requested, image_export,
                   fallback_color_fill, resize_path, cover, nSends,
                   rotate_requested,
                   source, othersOfImage>>

\* create_text_cover(postcard.message)
create_text_cover ==
    /\ iPc = "cover_done"
    /\ files' = IF TextCoverExports(export_requested)
                THEN files \cup {"text"} ELSE files
    /\ iPc' = "done"
    /\ UNCHANGED <<image, export_requested, image_export,
                   fallback_color_fill, resize_path, cover, nSends,
                   rotate_requested,
                   source, othersOfImage>>

InitImage ==
    /\ iPc = "idle"
    /\ image = NoImage
    /\ export_requested = FALSE
    /\ image_export = FALSE
    /\ fallback_color_fill = FALSE
    /\ resize_path = "none"
    /\ cover = NoImage
    /\ files = {}
    /\ rotate_requested = None
    /\ source = NoImage
    /\ nSends = 0

NextImage ==
    \/ image_open
    \/ image_rotate
    \/ image_resize
    \/ image_export_cover
    \/ create_text_cover

\* ------------------------------------------------------------------------
\* The header dictionaries of a Token over the attempts run on it
\* ------------------------------------------------------------------------
MaxAttempts == 3

LegacyOrder == <<"authorize", "login", "saml_page", "saml_replay", "token">>
SwissidOrder == <<"authorize", "federated_login", "status", "welcome_pack",
                  "init", "basic", "device_print", "success_url",
                  "login_form", "saml_replay", "token">>
Order(p) == IF p = "legacy" THEN LegacyOrder ELSE SwissidOrder

\* Token.__init__: {"User-Agent": self.user_agent}
FixedHeaders == {"User-Agent"}

\* the keys a path assigns in its header dictionary right before the request
AddedBefore(path, name) ==
    IF name = "saml_replay"
    THEN {"Origin", "X-Requested-With", "Upgrade-Insecure-Requests"}
    ELSE IF path = "swissid" /\ name \in {"basic", "device_print"}
    THEN {"authId"}
    ELSE {}

\* the requests sent without a headers argument
WithoutHeaders(path, name) ==
    path = "swissid" /\ name \in {"status", "welcome_pack", "init"}

\* "customer_headers = self.legacy_headers", "headers = self.swissid_headers":
\* the local name is bound to the dictionary of the Token, and the
\* assignments go into that dictionary
HeadersOf(path) ==
    IF path = "legacy" THEN legacy_headers ELSE swissid_headers

\* fetch_token calls a path function
attempt_begin ==
    /\ hPath = "none"
    /\ nAttempts < MaxAttempts
    /\ nAttempts' = nAttempts + 1
    /\ \E path \in {"legacy", "swissid"} : hPath' = path
    /\ hStep' = 1
    /\ hLog' = <<>>
    /\ UNCHANGED <<legacy_headers, swissid_headers, othersOfHdr>>

\* the next request of the path, with the headers it is given
attempt_request ==
    /\ hPath # "none"
    /\ hStep <= Len(Order(hPath))
    /\ LET name == Order(hPath)[hStep]
           headers == HeadersOf(hPath) \cup AddedBefore(hPath, name)
       IN /\ IF hPath = "legacy"
             THEN legacy_headers' = headers /\ UNCHANGED swissid_headers
             ELSE swissid_headers' = headers /\ UNCHANGED legacy_headers
          /\ hLog' = Append(hLog,
                 [path |-> hPath, req |-> name,
                  headers |-> IF WithoutHeaders(hPath, name) THEN {}
                              ELSE headers])
    /\ hStep' = hStep + 1
    /\ UNCHANGED <<hPath, nAttempts, othersOfHdr>>

\* the path function returns, or raises after any of its requests
attempt_end ==
    /\ hPath # "none"
    /\ hStep > 1
    /\ hPath' = "none"
    /\ UNCHANGED <<legacy_headers, swissid_headers, hStep, hLog, nAttempts,
                   othersOfHdr>>

InitHdr ==
    /\ legacy_headers = FixedHeaders
    /\ swissid_headers = FixedHeaders
    /\ hPath = "none"
    /\ hStep = 0
    /\ hLog = <<>>
    /\ nAttempts = 0

NextHdr ==
    \/ attempt_begin
    \/ attempt_request
    \/ attempt_end

\* ------------------------------------------------------------------------
\* create_text_image on one text, the loops of find_optimal_size and of
\* line_width taken one pass at a time
\* ------------------------------------------------------------------------
\* the texts with the empty one: one line of n characters, or no line
SearchTexts == 0..MaxTextLen

NoSearch == [msg |-> 0, size_l |-> 0, size_r |-> 0, size |-> 0,
             last_size |-> 0, last_line_w |-> 0,
             left |-> 0, right |-> 0, n |-> 0, lines |-> 0]

\* find_optimal_size(text, padding=50) is entered
search_begin ==
    /\ sPc = "idle"
    /\ \E text \in SearchTexts :
        search' = [NoSearch EXCEPT !.msg = text, !.size_l = min_size,
                                   !.size_r = max_size]
    /\ sPc' = "outer"
    /\ UNCHANGED othersOfSearch

\* "while size_l < size_r": the size to probe, and line_width(size) entered
search_outer ==
    /\ sPc = "outer"
    /\ search.size_l < search.size_r
    /\ LET size == (search.size_l + search.size_r) \div 2 IN
        search' = [search EXCEPT !.size = size, !.last_size = size,
                                 !.left = min_line_w, !.right = max_line_w]
    /\ sPc' = "inner"
    /\ UNCHANGED othersOfSearch

\* search_inner with the left end set to the probe itself
search_inner_NoAdvance ==
    /\ sPc = "inner"
    /\ search.left < search.right
    /\ LET n == (search.left + search.right) \div 2 IN
        IF BBoxW(search.size, n) + 2 * line_padding >= text_canvas_w
        THEN search' = [search EXCEPT !.n = n, !.right = n - 1]
        ELSE search' = [search EXCEPT !.n = n, !.left = n]
    /\ UNCHANGED <<sPc, othersOfSearch>>

\* one pass of "while left < right" of line_width
search_inner ==
    /\ sPc = "inner"
    /\ search.left < search.right
    /\ LET n == (search.left + search.right) \div 2 IN
        IF BBoxW(search.size, n) + 2 * line_padding >= text_canvas_w
        THEN search' = [search EXCEPT !.n = n, !.right = n - 1]
        ELSE search' = [search EXCEPT !.n = n, !.left = n + 1]
    /\ UNCHANGED <<sPc, othersOfSearch>>

\* "return n" of line_width and the rest of the pass of find_optimal_size
search_inner_return ==
    /\ sPc = "inner"
    /\ ~(search.left < search.right)
    /\ LET line_w == search.n
           height == WrappedLines(search.msg, line_w) * LineH(search.size)
       IN IF height + 2 * padding < text_canvas_h
          THEN search' = [search EXCEPT !.last_line_w = line_w,
                                        !.size_l = search.size + 1]
          ELSE search' = [search EXCEPT !.last_line_w = line_w,
                                        !.size_r = search.size - 1]
    /\ sPc' = "outer"
    /\ UNCHANGED othersOfSearch

\* "return last_size, last_line_w", then the lines wrapped and drawn
search_return ==
    /\ sPc = "outer"
    /\ ~(search.size_l < search.size_r)
    /\ search' = [search EXCEPT
                     !.lines = WrappedLines(search.msg, search.last_line_w)]
    /\ sPc' = "done"
    /\ UNCHANGED othersOfSearch

InitSearch ==
    /\ sPc = "idle"
    /\ search = NoSearch

NextSearch ==
    \/ search_begin
    \/ search_outer
    \/ search_inner
    \/ search_inner_return
    \/ search_return

\* ------------------------------------------------------------------------
\* TokenManager.get called by the threads of the server's thread pool for
\* one username; the handlers are plain functions and get takes no lock
\* ------------------------------------------------------------------------
MaxThreadGets == 3

Threads == {1, 2}

\* a request enters get
get_begin(t) ==
    /\ gPc[t] = "idle"
    /\ nThreadGets < MaxThreadGets
    /\ nThreadGets' = nThreadGets + 1
    /\ gPc' = [gPc EXCEPT ![t] = "lookup"]
    /\ gToken' = [gToken EXCEPT ![t] = 0]
    /\ gReturned' = [gReturned EXCEPT ![t] = 0]
    /\ UNCHANGED <<slot, fetched, nObjects, othersOfRace>>

\* "token = self._tokens[creds.username]", KeyError when there is none
get_lookup(t) ==
    /\ gPc[t] = "lookup"
    /\ IF slot # 0
       THEN /\ gToken' = [gToken EXCEPT ![t] = slot]
            /\ gPc' = [gPc EXCEPT ![t] = "check"]
       ELSE /\ gPc' = [gPc EXCEPT ![t] = "create"]
            /\ UNCHANGED gToken
    /\ UNCHANGED <<slot, gReturned, fetched, nObjects, nThreadGets,
                   othersOfRace>>

\* "token = self._tokens[creds.username] = Token()" in the except clause
get_create(t) ==
    /\ gPc[t] = "create"
    /\ nObjects' = nObjects + 1
    /\ slot' = nObjects + 1
    /\ gToken' = [gToken EXCEPT ![t] = nObjects + 1]
    /\ gPc' = [gPc EXCEPT ![t] = "check"]
    /\ UNCHANGED <<gReturned, fetched, nThreadGets, othersOfRace>>

\* "if token.is_expired():" on a Token that is never fetched or fetched
get_check(t) ==
    /\ gPc[t] = "check"
    /\ gPc' = [gPc EXCEPT ![t] = IF gToken[t] \in fetched THEN "return"
                                 ELSE "fetching"]
    /\ UNCHANGED <<slot, gToken, gReturned, fetched, nObjects, nThreadGets,
                   othersOfRace>>

\* token.fetch_token(username, password) returns, or raises out of get
get_fetch_token(t) ==
    /\ gPc[t] = "fetching"
    /\ \/ /\ fetched' = fetched \cup {gToken[t]}
          /\ gPc' = [gPc EXCEPT ![t] = "return"]
       \/ /\ gPc' = [gPc EXCEPT ![t] = "idle"]
          /\ UNCHANGED fetched
    /\ UNCHANGED <<slot, gToken, gReturned, nObjects, nThreadGets,
                   othersOfRace>>

\* "return token"
get_return(t) ==
    /\ gPc[t] = "return"
    /\ gReturned' = [gReturned EXCEPT ![t] = gToken[t]]
    /\ gPc' = [gPc EXCEPT ![t] = "idle"]
    /\ UNCHANGED <<slot, gToken, fetched, nObjects, nThreadGets,
                   othersOfRace>>

InitRace ==
    /\ slot = 0
    /\ gPc = [t \in Threads |-> "idle"]
    /\ gToken = [t \in Threads |-> 0]
    /\ gReturned = [t \in Threads |-> 0]
    /\ fetched = {}
    /\ nObjects = 0
    /\ nThreadGets = 0

NextRace ==
    \E t \in Threads :
        \/ get_begin(t)
        \/ get_lookup(t)
        \/ get_create(t)
        \/ get_check(t)
        \/ get_fetch_token(t)
        \/ get_return(t)

InitExt ==
    /\ InitMgr /\ InitConc /\ InitRetry /\ InitQuota /\ InitText /\ InitImage
    /\ InitHdr /\ InitRace /\ InitSearch

InitToken ==
    /\ pc = "idle"
    /\ method = "mixed"
    /\ entry = "fetch_token"
    /\ cred = Token_init
    /\ credBefore = Token_init
    /\ access_token = NoBody
    /\ implementation_type = ""
    /\ success = FALSE
    /\ exc = NoExc
    /\ pathExc = NoPathExc
    /\ page = NoPages
    /\ hvc = "n/a"
    /\ reqLog = <<>>
    /\ started = <<>>
    /\ tokenResp = NoResp
    /\ tokenSeen = NoSeen
    /\ now = 0
    /\ nCalls = 0

Init == InitToken /\ InitApi /\ InitExt

Next ==
    \/ fetch_token
    \/ has_valid_credentials
    \/ legacy_authorize
    \/ legacy_login
    \/ legacy_saml_page
    \/ legacy_saml_replay
    \/ legacy_token
    \/ swissid_authorize
    \/ swissid_federated_login
    \/ swissid_status
    \/ swissid_welcome_pack
    \/ swissid_init
    \/ swissid_basic
    \/ swissid_device_print
    \/ swissid_success_url
    \/ swissid_login_form
    \/ swissid_saml_replay
    \/ swissid_token
    \/ store
    \/ Tick

Spec == Init /\ [][Next]_vars

\* Specification of the REST facade
SpecApi == Init /\ [][NextApi]_vars

\* Specification of the token cache of the server
SpecMgr == Init /\ [][NextMgr]_vars

\* Specification of two threads on one Token object
SpecConc == Init /\ [][NextConc]_vars

\* Specification of the images of a card send
SpecImage == Init /\ [][NextImage]_vars

\* Specification of the two loops of the text renderer; the code is one
\* thread that runs on, so every enabled pass is taken
SpecSearch ==
    /\ Init /\ [][NextSearch]_vars
    /\ WF_vars(search_outer) /\ WF_vars(search_inner)
    /\ WF_vars(search_inner_return) /\ WF_vars(search_return)

\* Specification of TokenManager.get under two threads of the server
SpecRace == Init /\ [][NextRace]_vars

\* Specification of the header dictionaries over the attempts on one Token
SpecHdr == Init /\ [][NextHdr]_vars

\* Specification of the font size search of the text image
SpecText == Init /\ [][NextText]_vars

\* Specification of Quota.from_model on the dictionaries of the endpoint
SpecQuota == Init /\ [][NextQuota]_vars

\* Specification of a request on the retrying session; every attempt ends
SpecRetry == Init /\ [][NextRetry]_vars /\ WF_vars(attempt)

\* ------------------------------------------------------------------------
\* Properties of the credential acquisition
\* ------------------------------------------------------------------------
Range(f) == {f[i] : i \in DOMAIN f}
ReqPaths == {reqLog[i].path : i \in DOMAIN reqLog}
Sent(path, name) == \E i \in DOMAIN reqLog :
    reqLog[i].path = path /\ reqLog[i].req = name
InCall == nCalls > 0 /\ method \in Methods

\* C1: with method "mixed" the legacy path is attempted first, the swissid
\* path is attempted exactly when the legacy path raised, a successful legacy
\* path never starts the swissid path, and when both paths fail the exception
\* leaving fetch_token is the one of the swissid path.
C1_MixedFallback ==
    (InCall /\ method = "mixed") =>
        /\ started # <<>> /\ started[1] = "legacy"
        /\ reqLog # <<>> => reqLog[1].path = "legacy"
        /\ \A i \in 1..(Len(reqLog) - 1) :
            (reqLog[i].path = "swissid") => reqLog[i + 1].path = "swissid"
        /\ ("swissid" \in Range(started)) <=> (pathExc["legacy"] # NoExc)
        /\ ("swissid" \in ReqPaths) => (pathExc["legacy"] # NoExc)
        /\ (tokenResp["legacy"] # NoBody) =>
            (started = <<"legacy">> /\ "swissid" \notin ReqPaths)
        /\ (pathExc["legacy"] # NoExc /\ pathExc["swissid"] # NoExc) =>
            /\ pc = "raised"
            /\ exc = pathExc["swissid"]
            /\ exc # pathExc["legacy"]

C1_Witness ==
    /\ InCall /\ method = "mixed" /\ pc = "raised"
    /\ pathExc["legacy"] # NoExc /\ pathExc["swissid"] # NoExc
    /\ Sent("swissid", "authorize")

\* C2: with method "legacy" a failure of the legacy path leaves fetch_token
\* at once and the swissid path is never started; with method "swissid" the
\* legacy path is never started and a swissid failure leaves at once.
C2_SingleModeNoFallback ==
    /\ (InCall /\ method = "legacy") =>
        /\ started = <<"legacy">>
        /\ "swissid" \notin ReqPaths
        /\ pathExc["swissid"] = NoExc
        /\ (pathExc["legacy"] # NoExc) =>
            (pc = "raised" /\ exc = pathExc["legacy"])
    /\ (InCall /\ method = "swissid") =>
        /\ started = <<"swissid">>
        /\ "legacy" \notin ReqPaths
        /\ pathExc["legacy"] = NoExc
        /\ (pathExc["swissid"] # NoExc) =>
            (pc = "raised" /\ exc = pathExc["swissid"])

C2_Witness ==
    /\ InCall /\ method = "legacy" /\ pc = "raised"
    /\ pathExc["legacy"] # NoExc
    /\ Sent("legacy", "login")

\* C3: after a fetch_token call that raises, the five credential fields equal
\* their values before the call; after a call that returns, all five were
\* replaced together.
C3_NoPartialCredential ==
    /\ (pc = "raised") => (cred = credBefore)
    /\ (pc = "returned") =>
        /\ cred.token = Some(access_token.access_token)
        /\ cred.token_type # None
        /\ cred.token_expires_in = Some(access_token.expires_in)
        /\ cred.token_fetched_at # None
        /\ cred.token_implementation = implementation_type

\* C4: every failure of the credential acquisition leaves fetch_token as a
\* PostcardCreatorException, so has_valid_credentials returns False and never
\* raises.
C4_SingleErrorType ==
    /\ (pc = "raised") => (exc.type = PCE)
    /\ hvc # "raised"

\* C5: on a successful fetch_token the recorded implementation is the path
\* that returned the token, and the stored token is the access_token of the
\* token endpoint response of that path.
C5_ImplementationRecorded ==
    (pc = "returned") =>
        /\ cred.token_implementation \in Paths
        /\ tokenResp[cred.token_implementation] # NoBody
        /\ \A q \in Paths \ {cred.token_implementation} : tokenResp[q] = NoBody
        /\ reqLog[Len(reqLog)] = Req(cred.token_implementation, "token", "requests")
        /\ cred.token = Some(tokenResp[cred.token_implementation].access_token)
        /\ (method = "legacy") => (cred.token_implementation = "legacy")
        /\ (method = "swissid") => (cred.token_implementation = "swissid")
        /\ (method = "mixed") =>
            ((cred.token_implementation = "swissid") <=> (pathExc["legacy"] # NoExc))

C5_Witness ==
    /\ pc = "returned" /\ method = "mixed"
    /\ cred.token_implementation = "swissid"
    /\ cred.token = Some("xyz")

C10_SamlExtractionFailure ==
    \A p \in Paths :
        (page[p].saml \in {"absent", "novalue"}) =>
            /\ pathExc[p] = Exc(PCE, "Username/password authentication failed", p)
            /\ ~Sent(p, "saml_replay")
            /\ ~Sent(p, "token")
            /\ tokenResp[p] = NoBody
            /\ (p = "swissid" \/ method # "mixed") => (pc = "raised" /\ exc = pathExc[p])

C10_Witness ==
    /\ page["legacy"].saml = "absent"
    /\ page["swissid"].saml = "novalue"
    /\ pc = "raised"

\* ------------------------------------------------------------------------
\* Properties of the REST facade
\* ------------------------------------------------------------------------
Upload == Rest("post", "/card/upload")
Uploads == {i \in DOMAIN apiLog : apiLog[i] = Upload}
SendDone == apiOp = "send_free_card" /\ apiPc = "done"
Getters == {"get_quota", "get_user_info", "get_billing_saldo"}

\* C7: an unpaid send with mock_send false whose quota response has
\* available false raises the quota-specific error, which the server maps to
\* HTTP 429, and the upload call is never made.
C7_QuotaGating ==
    (SendDone /\ ~mock_send /\ quotaSeen # NoModel /\ ~quotaSeen.available) =>
        /\ apiExc.type = "FreeQuotaExceededException"
        /\ send_card_status(apiExc) = 429
        /\ Uploads = {}

\* C8: with mock_send true the send never issues the upload call and returns
\* False whatever the quota of the account is; the logged payload has
\* textImage and image replaced by the redaction marker and the payload that
\* would have been sent is unmodified.
C8_DryRun ==
    /\ (apiOp = "send_free_card" /\ mock_send) => (Uploads = {} /\ apiLog = <<>>)
    /\ (SendDone /\ mock_send /\ apiExc = NoExc) =>
        /\ apiResult = ReturnedFalse
        /\ logged["textImage"] = "omitted"
        /\ logged["image"] = "omitted"
        /\ \A k \in PayloadKeys \ {"textImage", "image"} : logged[k] = payload[k]
        /\ \E pic \in Pictures : payload = BuildPayload(pic)
    /\ (SendDone /\ mock_send /\ apiExc # NoExc) =>
        (apiExc = Exc(PCE, "Postcard must be set", "send_free_card")
         /\ payload = NoPayload)

C8_Witness ==
    /\ SendDone /\ mock_send /\ apiResult = ReturnedFalse
    /\ ~backendQuota.available
    /\ logged["image"] = "omitted" /\ payload["image"] = B64("picB")

\* C9: get_quota, get_user_info, get_billing_saldo and the card upload make
\* exactly one REST call, raise PostcardCreatorException when the status is
\* not 200/201/204 or the envelope has a non-empty errors array, and
\* otherwise return the model of the envelope unchanged.
RestRule ==
    (lastResp # NoResponse) =>
        IF lastResp.status \notin {200, 201, 204} \/ lastResp.errors = "nonempty"
        THEN apiExc.type = PCE /\ apiResult = NoResult
        ELSE apiExc = NoExc /\ apiResult = Returned(lastResp.model)

BadTokenResponse(r) == ~HasAccessToken(r) \/ r.status # 200

\* C11: a token endpoint response without access_token or with a status
\* other than 200 makes the path raise and no credential is issued from it;
\* a path returns a token only for status 200 with access_token.
C11_TokenExchangeHardFailure ==
    /\ \A p \in Paths :
        /\ (tokenSeen[p] # NoTokenResponse /\ BadTokenResponse(tokenSeen[p])) =>
            /\ pathExc[p] # NoExc
            /\ tokenResp[p] = NoBody
            /\ (pc \in {"store", "returned"}) => (implementation_type # p)
        /\ (tokenResp[p] # NoBody) =>
            /\ tokenSeen[p].status = 200
            /\ HasAccessToken(tokenSeen[p])
            /\ tokenResp[p].shape = tokenSeen[p].shape
    /\ (pc = "raised" /\ \A p \in Paths : tokenResp[p] = NoBody) =>
        (cred = credBefore)
    /\ (pc = "returned") => (tokenResp[implementation_type] # NoBody)

C11_Witness ==
    /\ pc = "raised"
    /\ tokenSeen["swissid"].status = 500
    /\ HasAccessToken(tokenSeen["swissid"])
    /\ tokenSeen["legacy"].status = 200
    /\ tokenSeen["legacy"].shape = "no_access_token"

\* C14 as claimed: every request of the flow, the token exchange included,
\* is sent through the session of the attempt.
C14_AllViaSession ==
    \A i \in DOMAIN reqLog : reqLog[i].via = "session"

\* C14 as amended: every request but the token exchange is sent through the
\* session of the attempt; the token exchange is sent with requests.post,
\* outside the session.
C14_AllButTokenViaSession ==
    \A i \in DOMAIN reqLog :
        /\ (reqLog[i].req # "token") => (reqLog[i].via = "session")
        /\ (reqLog[i].req = "token") => (reqLog[i].via = "requests")

C14_Witness ==
    /\ Sent("legacy", "token") /\ Sent("swissid", "token")
    /\ Len(reqLog) = 16

\* C20: the flow states of a path and their order
IsPath(p, r) == r.path = p
ReqsOf(p) == SelectSeq(reqLog, LAMBDA r : IsPath(p, r))
IsPrefixOfOrder(p) ==
    LET reqs == ReqsOf(p) IN
    /\ Len(reqs) <= Len(Order(p))
    /\ \A i \in DOMAIN reqs : reqs[i].req = Order(p)[i]

\* rank of the flow state reached after n successful requests of the path:
\* 0 Init, 1 AuthorizationRequested, 2 CredentialsSubmitted,
\* 3 AssertionExtracted, 4 CodeExchanged, 5 TokenIssued
RankAfter(p, n) ==
    IF p = "legacy" THEN n
    ELSE IF n = 0 THEN 0
    ELSE IF n <= 5 THEN 1
    ELSE IF n <= 8 THEN 2
    ELSE n - 6

Failed(p) == pathExc[p] # NoExc
FlowRank(p) == RankAfter(p, Len(ReqsOf(p)))

\* C20: within one attempt a path passes the flow states in their order, a
\* token is returned only after all of them, no state is skipped or
\* revisited, and a failed attempt sends no further request of its path.
C20_StateOrder ==
    /\ [](\A p \in Paths :
            /\ IsPrefixOfOrder(p)
            /\ (tokenResp[p] # NoBody) =>
                (ReqsOf(p) # <<>> /\ Len(ReqsOf(p)) = Len(Order(p))
                 /\ FlowRank(p) = 5 /\ ~Failed(p)))
    /\ [][\A p \in Paths : (nCalls' = nCalls) =>
            /\ Failed(p) => Failed(p)'
            /\ \/ reqLog' = reqLog
               \/ LET before == Len(ReqsOf(p))
                      after == Len(ReqsOf(p)')
                  IN  /\ Failed(p) => after = before
                      /\ after \in {before, before + 1}
                      /\ RankAfter(p, after) \in
                            {RankAfter(p, before), RankAfter(p, before) + 1}
                      /\ SubSeq(ReqsOf(p)', 1, before) = ReqsOf(p)]_vars

C20_Witness ==
    /\ Failed("legacy") /\ Len(ReqsOf("legacy")) = 3
    /\ tokenResp["swissid"] # NoBody /\ FlowRank("swissid") = 5

ReadDone == rPc = Len(FieldsRead) + 1

\* C16: a reader of a Token that is being re-fetched by another thread
\* observes either all five fields of the old credential or all five fields
\* of the new one, never a mix.
C16_FullReplace ==
    ReadDone => (snap = OldCred \/ (wPc > 0 /\ snap = NewCred(wNew)))

\* ------------------------------------------------------------------------
\* Properties of the retrying session
\* ------------------------------------------------------------------------
Resent == rAttempts >= 1 /\ rAttempts' = rAttempts + 1
Ended == rState \in {"returned", "raised"}
IsResponse(o) == o.kind = "response"
Is4xx(o) == IsResponse(o) /\ o.status \in 400..499
IsErrorPayload(o) == IsResponse(o) /\ o.status = 200 /\ o.errors
Transient(o) ==
    \/ o.kind \in {"connect_error", "read_error"}
    \/ IsResponse(o) /\ o.status \in StatusForcelist
RetryAfterAsked(o) ==
    IsResponse(o) /\ o.retry_after /\ o.status \in RetryAfterStatusCodes

C18_ExhaustedQuotaHasNext ==
    (qValue.made /\ ~qValue.available) => (qValue.next # None)

\* ------------------------------------------------------------------------
\* Properties of the text image
\* ------------------------------------------------------------------------
\* C12: for a non-empty text the font size find_optimal_size returns fits
\* the canvas height and no larger size of [min_size, max_size] fits, and a
\* shorter text never gets a smaller size than a longer one.
C12_FitInvariant ==
    /\ (tPc = "done") =>
        /\ last_size \in min_size..max_size
        /\ DoesFit(msg, last_size)
        /\ \A s \in (last_size + 1)..max_size : ~DoesFit(msg, s)
    /\ \A n1, n2 \in Texts :
        (n1 < n2 /\ chosen[n1] # 0 /\ chosen[n2] # 0) =>
            chosen[n1] >= chosen[n2]

\* ------------------------------------------------------------------------
\* Properties of the images of a card send
\* ------------------------------------------------------------------------
Resized == resize_path # "none"
SmallerThanBox == image[1] < TargetBox[1] \/ image[2] < TargetBox[2]

\* C13 as claimed: a picture with a dimension smaller than the target box
\* takes the contain/fill path, a picture at least as large as the box in
\* both dimensions takes the cover/crop path, and the output has exactly the
\* size of the box.
C13_CoverVsContain ==
    Resized =>
        /\ SmallerThanBox => resize_path = "contain"
        /\ ~SmallerThanBox => resize_path = "cover"
        /\ cover = TargetBox

\* C13 as amended: the contain/fill path is taken only for a picture with a
\* dimension smaller than the box and only when the send passes
\* fallback_color_fill = True; without it every picture, smaller ones
\* included, takes the cover/crop path; a picture at least as large as the
\* box takes the cover/crop path; the output has exactly the size of the box.
C13_ContainOnlyWithFallback ==
    Resized =>
        /\ (resize_path = "contain") => (fallback_color_fill /\ SmallerThanBox)
        /\ ~fallback_color_fill => resize_path = "cover"
        /\ ~SmallerThanBox => resize_path = "cover"
        /\ cover = TargetBox

C13_Witness ==
    /\ iPc = "done" /\ resize_path = "cover" /\ ~fallback_color_fill
    /\ image = <<1311, 1000>> /\ cover = TargetBox

\* C19: a card send with image_export = false writes no file to the
\* sent-images directory, for the picture or for the text card, on the
\* cover or the contain path.
C19_ExportOnlyOnRequest ==
    (iPc = "done" /\ ~export_requested) => files = {}


\* ------------------------------------------------------------------------
\* C21: in both paths a SAML replay response without a Location header, or
\* whose Location has no code parameter, raises the error "response does not
\* have code attribute", which is not the credentials-rejected error, and the
\* token exchange of that path is not sent; the replay is sent with
\* allow_redirects = False.
\* ------------------------------------------------------------------------
NoCodeError(p) == Exc(PCE, "response does not have code attribute", p)
CredentialsErrors(p) ==
    {Exc(PCE, "Username/password authentication failed", p),
     Exc(PCE, "failed to login, username/password wrong?", p)}

C21_NoCodeIsShapeError ==
    /\ \A p \in Paths :
        page[p].location \in {"absent", "nocode"} =>
            /\ pathExc[p] = NoCodeError(p)
            /\ pathExc[p] \notin CredentialsErrors(p)
            /\ ~Sent(p, "token")
    /\ \A i \in DOMAIN reqLog :
        reqLog[i].req = "saml_replay" => ~reqLog[i].allow_redirects

C21_Witness ==
    /\ page["legacy"].location = "absent"
    /\ page["swissid"].location = "nocode"
    /\ pathExc["swissid"] = NoCodeError("swissid")
    /\ Sent("swissid", "saml_replay")
    /\ pc = "raised"

\* ------------------------------------------------------------------------
\* C22: every failure inside the swissid anomaly-detection step (the body of
\* the credentials response is not JSON, or lacks nextAction.type or
\* tokens.authId, or the device-print POST fails) is raised as the
\* PostcardCreatorException "Anomaly detection step failed" with the previous
\* body and the pending URL, and the device-print request is sent at most
\* once.
\* ------------------------------------------------------------------------
AnomalyError == Exc(PCE, "Anomaly detection step failed", "swissid")
LastReq(p) == LET reqs == ReqsOf(p) IN reqs[Len(reqs)].req
\* the swissid attempt failed between the response of the credentials
\* submission and the response of the device-print POST
FailedInAnomalyDetection ==
    /\ Failed("swissid")
    /\ Len(ReqsOf("swissid")) > 0
    /\ \/ LastReq("swissid") = "basic" /\ pathExc["swissid"].msg # "transport"
       \/ LastReq("swissid") = "device_print"
          /\ pathExc["swissid"] # ReadSuccessUrl("no_success_url")

C22_AnomalyFailureWrapped ==
    /\ FailedInAnomalyDetection => pathExc["swissid"] = AnomalyError
    /\ Len(SelectSeq(ReqsOf("swissid"),
                     LAMBDA r : r.req = "device_print")) <= 1

\* ------------------------------------------------------------------------
\* C23: the code_verifier of a token exchange is the verifier whose S256
\* challenge went out in the authorization request of the same attempt;
\* attempts of different paths in one call use different verifiers and
\* challenges; the Token has no field holding a verifier.
\* ------------------------------------------------------------------------
AuthorizeOf(p) == {i \in DOMAIN reqLog :
                      reqLog[i].path = p /\ reqLog[i].req = "authorize"}
TokenOf(p) == {i \in DOMAIN reqLog :
                  reqLog[i].path = p /\ reqLog[i].req = "token"}

SwissidReqs(name) == {i \in DOMAIN reqLog :
                         reqLog[i].path = "swissid" /\ reqLog[i].req = name}

C24_SwissidOrder ==
    /\ IsPrefixOfOrder("swissid")
    /\ \A b \in SwissidReqs("basic") :
        /\ \E i \in SwissidReqs("init") : i < b
        /\ pathExc["swissid"] \notin {ReadAuthId(body) : body \in InitBodies}
               \ {NoExc}
        /\ reqLog[b].authId_from = "init"
    /\ \A d \in SwissidReqs("device_print") :
        /\ \E b \in SwissidReqs("basic") : b < d
        /\ reqLog[d].authId_from = "basic"

C24_Witness ==
    /\ Len(ReqsOf("swissid")) = Len(SwissidOrder)
    /\ cred.token_implementation = "swissid"
    /\ pc = "returned"

\* ------------------------------------------------------------------------
\* C25: a federated login that followed no redirect raises
\* PostcardCreatorException and no later request of the path is sent; a last
\* redirect with an empty goto raises PostcardCreatorException before the
\* status check; the goto is read from the Location of the last redirect.
\* ------------------------------------------------------------------------
resp_history == page["swissid"].redirects
LastRedirect == resp_history[Len(resp_history)]
AfterFederatedLogin == {"status", "welcome_pack", "init", "basic",
                        "device_print", "success_url", "login_form",
                        "saml_replay", "token"}
NoneSentAfterFederatedLogin ==
    \A name \in AfterFederatedLogin : ~Sent("swissid", name)

C25_RedirectChain ==
    /\ resp_history = <<>> =>
        /\ pathExc["swissid"] = Exc(PCE, "fail to fetch", "swissid")
        /\ NoneSentAfterFederatedLogin
    /\ (resp_history \in Histories \ {<<>>} /\ LastRedirect = "empty_goto") =>
        /\ pathExc["swissid"] =
               Exc(PCE, "swissid: cannot fetch goto param", "swissid")
        /\ NoneSentAfterFederatedLogin
    /\ pc = "swissid_status" =>
        resp_history \in Histories \ {<<>>} /\ LastRedirect = "goto"
    /\ Sent("swissid", "status") => pathExc["swissid"] \notin
           {ReadGoto(h) : h \in Histories} \ {NoExc}

C25_Witness ==
    /\ resp_history = <<"goto", "empty_goto">>
    /\ pathExc["swissid"] =
           Exc(PCE, "swissid: cannot fetch goto param", "swissid")
    /\ LastReq("swissid") = "federated_login"

\* ------------------------------------------------------------------------
\* C26: a device-print response without nextAction.successUrl raises the
\* PostcardCreatorException "failed to login, username/password wrong?" and
\* none of the successUrl GET, login-form POST, SAML replay and token
\* exchange is sent.
\* ------------------------------------------------------------------------
AfterDevicePrint == {"success_url", "login_form", "saml_replay", "token"}
InvalidCredentialsError ==
    Exc(PCE, "failed to login, username/password wrong?", "swissid")

C26_NoSuccessUrl ==
    page["swissid"].device_print \in {"notjson", "no_success_url"} =>
        /\ pathExc["swissid"] = InvalidCredentialsError
        /\ LastReq("swissid") = "device_print"
        /\ \A name \in AfterDevicePrint : ~Sent("swissid", name)

C26_Witness ==
    /\ page["swissid"].device_print = "no_success_url"
    /\ pathExc["swissid"] = InvalidCredentialsError
    /\ method = "swissid"
    /\ pc = "raised"

\* ------------------------------------------------------------------------
\* C27: within one fetch_token call each path is started at most once, no
\* request of a path is issued twice by the flow (the login carrying the
\* credentials included), and a path that failed is at none of its steps.
\* ------------------------------------------------------------------------
TimesSent(p, name) ==
    Len(SelectSeq(reqLog, LAMBDA r : r.path = p /\ r.req = name))
\* the request whose form data holds the username and the password
CredentialsRequest(p) == IF p = "legacy" THEN "login" ELSE "basic"
StepsOf(p) ==
    IF p = "legacy"
    THEN {"legacy_authorize", "legacy_login", "legacy_saml_page",
          "legacy_saml_replay", "legacy_token"}
    ELSE {"swissid_authorize", "swissid_federated_login", "swissid_status",
          "swissid_welcome_pack", "swissid_init", "swissid_basic",
          "swissid_device_print", "swissid_success_url",
          "swissid_login_form", "swissid_saml_replay", "swissid_token"}

\* the requests of the call, each named by its path and its step
RequestsIssued == {<<reqLog[i].path, reqLog[i].req>> : i \in DOMAIN reqLog}

C27_NoFlowRetry ==
    /\ Cardinality(Range(started)) = Len(started)
    /\ Cardinality(RequestsIssued) = Len(reqLog)
    /\ \A p \in Paths :
        /\ TimesSent(p, CredentialsRequest(p)) <= 1
        /\ Failed(p) => pc \notin StepsOf(p)

C27_Witness ==
    /\ method = "mixed"
    /\ Failed("legacy") /\ Failed("swissid")
    /\ TimesSent("legacy", "login") = 1
    /\ TimesSent("swissid", "basic") = 1
    /\ pc = "raised"

\* ------------------------------------------------------------------------
\* C28: the picture is rotated by 90 degrees exactly when the rotation
\* policy is enabled and the picture is portrait; a send asked with
\* image_rotate=False leaves a portrait picture as it is.
\* ------------------------------------------------------------------------
Portrait(img) == img[2] > img[1]
\* the policy asked by the caller: enabled unless image_rotate=False
PolicyEnabled == rotate_requested # Some(FALSE)
PastRotation == iPc \in {"rotated", "resized", "cover_done", "done"}

C28_RotationPolicy ==
    PastRotation =>
        /\ (image # source) <=> (PolicyEnabled /\ Portrait(source))
        /\ (rotate_requested = Some(FALSE) /\ Portrait(source)) =>
               image = source

\* ------------------------------------------------------------------------
\* C29: the authorization request of every attempt carries exactly the
\* User-Agent header, whatever attempts ran before on the same Token, and no
\* request carries a header that its own attempt has not added so far.
\* ------------------------------------------------------------------------
RECURSIVE AddedUpTo(_, _)
AddedUpTo(path, i) ==
    IF i = 0 THEN {}
    ELSE AddedUpTo(path, i - 1) \cup AddedBefore(path, Order(path)[i])

C29_HeaderIsolation ==
    \A i \in DOMAIN hLog :
        /\ hLog[i].req = "authorize" => hLog[i].headers = FixedHeaders
        /\ hLog[i].headers \subseteq
               FixedHeaders \cup AddedUpTo(hLog[i].path, i)

\* ------------------------------------------------------------------------
\* C30: TokenManager.get returns a token only to a call whose own username
\* and password the identity provider accepts; a call with the username of a
\* cached token that is not expired and another password does not get the
\* cached token.
\* ------------------------------------------------------------------------
C30_TokenOnlyForAcceptedPassword ==
    (mgrCall # NoGet /\ mgrCall.result = "returned") =>
        Accepts(mgrCall.user, mgrCall.password)

\* ------------------------------------------------------------------------
\* C31: under concurrent TokenManager.get calls for one username every
\* caller gets the same Token object, at most one fetch_token runs for the
\* username at a time, and a returned Token is one whose fetch has returned.
\* ------------------------------------------------------------------------
InFlight == {t \in Threads : gPc[t] = "fetching"}

C31_OneTokenOneFetch ==
    /\ \A t, u \in Threads :
        (gReturned[t] # 0 /\ gReturned[u] # 0) => gReturned[t] = gReturned[u]
    /\ Cardinality(InFlight) <= 1
    /\ \A t \in Threads : gReturned[t] # 0 => gReturned[t] \in fetched

\* ------------------------------------------------------------------------
\* C32: both binary searches of the text renderer terminate for every text:
\* each pass of the loop of line_width and of the loop of find_optimal_size
\* strictly shrinks its interval, the returned font size lies in
\* [min_size, max_size] and the returned line width in
\* [min_line_w, max_line_w]; for the empty text the search ends as well and
\* no line is drawn.
\* ------------------------------------------------------------------------
InnerPass == sPc = "inner" /\ sPc' = "inner" /\ search' # search
OuterPass == sPc = "inner" /\ sPc' = "outer"

C32_SearchesTerminate ==
    /\ (sPc = "outer") ~> (sPc = "done")
    /\ (sPc = "inner") ~> (sPc = "outer")
    /\ [][InnerPass =>
            /\ search'.right - search'.left < search.right - search.left
            /\ search'.left >= search.left
            /\ search'.right <= search.right]_vars
    /\ [][OuterPass =>
            /\ search'.size_r - search'.size_l < search.size_r - search.size_l
            /\ search'.size_l >= search.size_l
            /\ search'.size_r <= search.size_r]_vars
    /\ [](sPc = "done" =>
            /\ search.last_size \in min_size..max_size
            /\ search.last_line_w \in min_line_w..max_line_w
            /\ search.last_line_w = line_width(search.last_size)
            /\ search.msg = 0 => search.lines = 0)

C32_Witness ==
    /\ sPc = "done"
    /\ search.msg = 0
    /\ search.lines = 0
    /\ search.last_size \in min_size..max_size
    /\ search.last_line_w \in min_line_w..max_line_w

====
